---------------------------- MODULE Spec2Model ----------------------------
(***************************************************************************)
(* Acceleration-structure manager of RayTracedGL1 (Source/ASManager.cpp):  *)
(* the static and per-frame dynamic vertex collectors, the bottom-level    *)
(* records per filter, the per-frame top-level record, the instance        *)
(* buffer, the Instance Offset Table in the global uniform and its lookup  *)
(* in Shaders/VertexData.inl.                                              *)
(***************************************************************************)
EXTENDS Integers, Sequences, FiniteSets, TLC

(* ------------------------------ bounds -------------------------------- *)

\* geometries one filter group of one collector accepts in the model
MaxGeomsPerGroup == 1

(* ------------------------- program constants -------------------------- *)

MAX_FRAMES_IN_FLIGHT == 2
\* a maximum below the number of records the manager holds
SmallInstanceCount == 1 + 1
MAX_TOP_LEVEL_INSTANCE_COUNT == 45
MAX_BOTTOM_LEVEL_GEOMETRIES_COUNT == 4096
INSTANCE_CUSTOM_INDEX_FLAG_DYNAMIC == 1
\* VkAccelerationStructureInstanceKHR instances[32]
InstancesCapacity == 32
\* a table one ivec4 shorter than the number of records the manager holds
ShortOffsetVec4Count == 12 - 1
\* ivec4 instanceGeomInfoOffset[12]
UniformOffsetVec4Count == 12
VK_NULL_HANDLE == 0

\* VertexCollectorFilterTypeFlagBits
CF_STATIC_NON_MOVABLE == 1
CF_STATIC_MOVABLE == 2
CF_DYNAMIC == 4
PT_OPAQUE == 8
PT_ALPHA_TESTED == 16
PT_BLEND_ADDITIVE == 32
PT_BLEND_UNDER == 64

VertexCollectorFilterGroup_ChangeFrequency == <<CF_STATIC_NON_MOVABLE, CF_STATIC_MOVABLE, CF_DYNAMIC>>
VertexCollectorFilterGroup_PassThrough == <<PT_OPAQUE, PT_ALPHA_TESTED, PT_BLEND_ADDITIVE, PT_BLEND_UNDER>>

RG_GEOMETRY_TYPE_STATIC == "RG_GEOMETRY_TYPE_STATIC"
RG_GEOMETRY_TYPE_STATIC_MOVABLE == "RG_GEOMETRY_TYPE_STATIC_MOVABLE"
RG_GEOMETRY_TYPE_DYNAMIC == "RG_GEOMETRY_TYPE_DYNAMIC"

Frames == 0 .. (MAX_FRAMES_IN_FLIGHT - 1)

\* marks an int of memory that was never written (no offset is negative)
Uninit == 0 - 1

(* ------------------------------ helpers ------------------------------- *)

\* filter & bit, for a single flag bit
HasBit(filter, bit) == (filter \div bit) % 2 = 1

\* filter & mask, for a mask of the flag bits
HasAny(filter, mask) ==
    \E b \in {CF_STATIC_NON_MOVABLE, CF_STATIC_MOVABLE, CF_DYNAMIC,
              PT_OPAQUE, PT_ALPHA_TESTED, PT_BLEND_ADDITIVE, PT_BLEND_UNDER} :
        HasBit(filter, b) /\ HasBit(mask, b)

IndexOf(seq, x) == CHOOSE i \in DOMAIN seq : seq[i] = x

CfOf(filter) == CHOOSE cf \in {CF_STATIC_NON_MOVABLE, CF_STATIC_MOVABLE, CF_DYNAMIC} : HasBit(filter, cf)
PtOf(filter) == CHOOSE pt \in {PT_OPAQUE, PT_ALPHA_TESTED, PT_BLEND_ADDITIVE, PT_BLEND_UNDER} : HasBit(filter, pt)

\* every cf | pt, change frequency in the outer loop
AllFilters ==
    [k \in 1 .. (Len(VertexCollectorFilterGroup_ChangeFrequency) * Len(VertexCollectorFilterGroup_PassThrough)) |->
        VertexCollectorFilterGroup_ChangeFrequency[((k - 1) \div Len(VertexCollectorFilterGroup_PassThrough)) + 1]
        + VertexCollectorFilterGroup_PassThrough[((k - 1) % Len(VertexCollectorFilterGroup_PassThrough)) + 1]]

IsDynamicFilter(filter) == HasBit(filter, CF_DYNAMIC)
\* a constructor that puts every record on the static list
AnyFilterIsStatic(filter) == TRUE

\* the else branch of the constructor's test of CF_DYNAMIC
IsStaticListFilter(filter) == ~HasBit(filter, CF_DYNAMIC)

\* index of the filter's group among all groups
VertexCollectorFilterTypeFlagsToOffset(filter) ==
    (IndexOf(VertexCollectorFilterGroup_ChangeFrequency, CfOf(filter)) - 1) * Len(VertexCollectorFilterGroup_PassThrough)
    + (IndexOf(VertexCollectorFilterGroup_PassThrough, PtOf(filter)) - 1)

\* the filter a collector files an upload under
GetFilter(info) ==
    (CASE info.geomType = RG_GEOMETRY_TYPE_STATIC -> CF_STATIC_NON_MOVABLE
       [] info.geomType = RG_GEOMETRY_TYPE_STATIC_MOVABLE -> CF_STATIC_MOVABLE
       [] info.geomType = RG_GEOMETRY_TYPE_DYNAMIC -> CF_DYNAMIC)
    + info.passThroughType

(* -------------------------------- state ------------------------------- *)

VARIABLES
    collectorStatic,    \* [collecting, geoms: filter -> number of geometries]
    collectorDynamic,   \* frame -> the same
    allStaticBlas,      \* sequence of AccelerationStructure records
    allDynamicBlas,     \* frame -> sequence of AccelerationStructure records
    tlas,               \* frame -> AccelerationStructure record of the TLAS
    instanceBuffers,    \* frame -> sequence of VkAccelerationStructureInstanceKHR
    uniform,            \* ShGlobalUniform::instanceGeomInfoOffset as flat ints
    asDescSets,         \* frame -> handle last written by UpdateASDescriptors
    staticCopyFence,    \* "unsignaled" | "signaled"
    gpuPending,         \* static filters whose submitted build the GPU has not finished
    pc,                 \* "idle" | "waitFence" (inside SubmitStaticGeometry)
    staticLog,          \* the steps of the most recent SubmitStaticGeometry
    tlasRet,            \* frame -> what the most recent TryBuildTLAS returned ("none": not called)
    fresh,              \* no collector was reset while a structure built from it was live
    staticSkips,        \* SubmitStaticGeometry calls in a row without static data and
                        \* without an AddStaticGeometry between them (counted up to 2)
    transforms,         \* geometry index -> transform the static collector holds for it
    builderQueue,       \* the builds ASBuilder holds between AddBLAS/AddTLAS and the flush
    run,                \* "release": asserts compiled out | "debug": asserts checked |
                        \* "aborted": a debug build stopped by a failed assert |
                        \* "crashed": a release build stopped by undefined behaviour
    device,             \* "ok" | "exhausted": creating a buffer or structure fails
    addRet,             \* what the last AddStaticGeometry / AddDynamicGeometry call since the
                        \* collector was reset returned: "none" | "index" | "UINT32_MAX"
    shaderIn,           \* the buffers the shader functions of VertexData.inl read
    shaderOut,          \* the most recent call of one of them, with what it returned
    colorAttchs,        \* RasterPass: frame -> [image, view, memory] (handles, 0: null)
    depthAttchs,        \* the same for the depth attachment
    rasterFramebuffers, \* RasterPass: frame -> framebuffer handle
    rasterSkyFramebuffers,
    rasterWidth,
    rasterHeight,
    thrown,             \* the exception the most recent RasterPass operation left with: "none" | "RgException"
    finalBlit           \* the blit the most recent PrepareForFinal recorded, or NoBlit

\* what ASManager holds, with the build and the device it runs on
managerVars == <<collectorStatic, collectorDynamic, allStaticBlas, allDynamicBlas, tlas,
                 instanceBuffers, uniform, asDescSets, staticCopyFence, gpuPending, pc,
                 staticLog, tlasRet, fresh, staticSkips, transforms, builderQueue, addRet>>

shaderVars == <<shaderIn, shaderOut>>

rasterVars == <<colorAttchs, depthAttchs, rasterFramebuffers, rasterSkyFramebuffers,
                rasterWidth, rasterHeight, thrown, finalBlit>>

\* what no operation of ASManager touches
outsideManager == <<shaderVars, rasterVars>>

vars == <<managerVars, run, device, outsideManager>>

(* ----------------------- acceleration structures ---------------------- *)

\* AccelerationStructure: native handle, size of the backing buffer (0: not
\* initted), owning filter; with what the GPU holds for it: the number of
\* geometries built into it and how its last build is ordered
\* ("none" | "built": recorded, no barrier after it | "ordered": barrier after it)
\* the transforms of its geometries its last build or update read, and whether
\* that was an update
NewAS(filter) ==
    [filter |-> filter, as |-> VK_NULL_HANDLE, size |-> 0, geoms |-> 0, sync |-> "none", baked |-> <<>>,
     updated |-> FALSE]

\* a handle that differs from the one the record held
CreateHandle(old) == IF old = 1 THEN 2 ELSE 1

\* a DestroyAS that destroys the native handle and keeps the buffer
DestroyHandleOnly(as) ==
    [as EXCEPT !.as = VK_NULL_HANDLE, !.geoms = 0, !.sync = "none", !.baked = <<>>, !.updated = FALSE]

DestroyAS(as) ==
    [as EXCEPT !.as = VK_NULL_HANDLE, !.size = 0, !.geoms = 0, !.sync = "none", !.baked = <<>>,
                !.updated = FALSE]

IsInitted(as) == as.size > 0

\* svkGetAccelerationStructureDeviceAddressKHR: the address names the structure
GetASAddress(as) == <<as.filter, as.as>>

NeverFastBuild(filter) == FALSE

IsFastBuild(filter) == HasBit(filter, CF_DYNAMIC)

\* sizes the driver reports for n geometries / n instances
GetBottomBuildSizes(n) == n
GetTopBuildSizes(n) == n

\* collector queries
GetASGeometries(col, filter) == col.geoms[filter]

AreGeometriesEmpty(col, flags) ==
    \A filter \in DOMAIN col.geoms : HasAny(filter, flags) => col.geoms[filter] = 0

\* metadata index a collector writes the local-th geometry of a group under
GeomInfoIndex(filter, local) ==
    VertexCollectorFilterTypeFlagsToOffset(filter) * MAX_BOTTOM_LEVEL_GEOMETRIES_COUNT + local

\* CreateASBuffer and svkCreateAccelerationStructureKHR for a record that was
\* destroyed: on a device that cannot allocate the record stays without
\* buffer and handle
CreateAS(as, size) ==
    IF device = "ok"
    THEN [DestroyAS(as) EXCEPT !.as = CreateHandle(as.as), !.size = size]
    ELSE DestroyAS(as)

\* SetupBLAS: the record after it, what it enqueued (<<>> or one build, with
\* the preference the sizes were queried with and the one handed to AddBLAS),
\* and whether VK_CHECKERROR was given a result other than VK_SUCCESS
SetupBLAS(as, col) ==
    LET n == GetASGeometries(col, as.filter)
        fastTrace == ~IsFastBuild(as.filter)
        size == GetBottomBuildSizes(n)
        recreate == ~IsInitted(as) \/ as.size < size
        as1 == IF recreate THEN CreateAS(as, size) ELSE as
    IN  IF n = 0
        THEN [as |-> as, queued |-> <<>>, failed |-> FALSE]
        ELSE [as |-> as1,
              queued |-> <<[as |-> as1.as, filter |-> as.filter, geoms |-> n, size |-> size,
                            fastTrace |-> fastTrace, queried |-> fastTrace, update |-> FALSE]>>,
              failed |-> recreate /\ device # "ok"]

\* an update that destroys and recreates the structure it is given
RecreateBLAS(as, col) ==
    LET n == GetASGeometries(col, as.filter)
        size == GetBottomBuildSizes(n)
        as1 == [DestroyAS(as) EXCEPT !.as = CreateHandle(as.as), !.size = size]
    IN  IF n = 0
        THEN [as |-> as, queued |-> <<>>, asserted |-> TRUE]
        ELSE [as |-> as1,
              queued |-> <<[as |-> as1.as, filter |-> as.filter, geoms |-> n, size |-> size,
                            fastTrace |-> ~IsFastBuild(as.filter), queried |-> ~IsFastBuild(as.filter),
                            update |-> TRUE]>>,
              asserted |-> TRUE]

\* UpdateBLAS: as SetupBLAS, in update mode and without (re)creating
UpdateBLAS(as, col) ==
    LET n == GetASGeometries(col, as.filter)
        fastTrace == ~IsFastBuild(as.filter)
        size == GetBottomBuildSizes(n)
    IN  IF n = 0
        THEN [as |-> as, queued |-> <<>>, asserted |-> TRUE]
        ELSE [as |-> as,
              queued |-> <<[as |-> as.as, filter |-> as.filter, geoms |-> n, size |-> size,
                            fastTrace |-> fastTrace, queried |-> fastTrace, update |-> TRUE]>>,
              asserted |-> IsInitted(as) /\ as.size >= size]

\* concatenation of a sequence of sequences
RECURSIVE Flatten(_)
Flatten(ss) == IF ss = <<>> THEN <<>> ELSE Head(ss) \o Flatten(Tail(ss))

Step(name, arg) == [step |-> name, arg |-> arg]

QueueSteps(queue) == [k \in DOMAIN queue |-> Step(IF queue[k].update THEN "AddBLAS:update" ELSE "AddBLAS:build", queue[k].filter)]

FilterSet(queue) == {queue[k].filter : k \in DOMAIN queue}

\* a bottom-level flush that records no barrier after the build command
BuildBottomLevelNoBarrier == <<Step("vkCmdBuildAccelerationStructuresKHR:bottom", 0)>>

\* commands ASBuilder::BuildBottomLevel / BuildTopLevel record
BuildBottomLevelCmds == <<Step("vkCmdBuildAccelerationStructuresKHR:bottom", 0), Step("ASBuildMemoryBarrier", 0)>>
BuildTopLevelCmds == <<Step("vkCmdBuildAccelerationStructuresKHR:top", 0), Step("ASBuildMemoryBarrier", 0)>>

\* whether, in a command sequence, a barrier follows the last build command
BarrierFollowsBuild(cmds) ==
    /\ \E i \in DOMAIN cmds : cmds[i].step \in {"vkCmdBuildAccelerationStructuresKHR:bottom", "vkCmdBuildAccelerationStructuresKHR:top"}
    /\ \A i \in DOMAIN cmds :
          cmds[i].step \in {"vkCmdBuildAccelerationStructuresKHR:bottom", "vkCmdBuildAccelerationStructuresKHR:top"}
          => \E j \in DOMAIN cmds : j > i /\ cmds[j].step = "ASBuildMemoryBarrier"

SyncOf(cmds) == IF BarrierFollowsBuild(cmds) THEN "ordered" ELSE "built"

\* the transforms a build of n geometries of a group reads from the collector
BakedTransforms(filter, n) ==
    [l \in 1 .. n |-> IF IsStaticListFilter(filter) THEN transforms[GeomInfoIndex(filter, l - 1)] ELSE 0]

\* ASBuilder::IsEmpty
IsEmpty(queue) == queue = <<>>

\* the queue after ASBuilder::BuildBottomLevel / BuildTopLevel
Flushed(queue) == <<>>

\* ASBuilder::BuildBottomLevel on the GPU side: the queued builds are recorded
\* in one batch; cmds are the commands the caller records from the build on
BuildBottomLevel(list, queue, cmds) ==
    [i \in DOMAIN list |->
        IF list[i].as # VK_NULL_HANDLE /\ \E k \in DOMAIN queue : queue[k].filter = list[i].filter
        THEN LET b == queue[CHOOSE k \in DOMAIN queue : queue[k].filter = list[i].filter]
             IN  [list[i] EXCEPT !.geoms = b.geoms, !.sync = SyncOf(cmds),
                                 !.baked = BakedTransforms(b.filter, b.geoms), !.updated = b.update]
        ELSE list[i]]

(* ------------------------------- inputs ------------------------------- *)

Upload(type, pt) == [geomType |-> type, passThroughType |-> pt]

StaticUploads ==
    {Upload(RG_GEOMETRY_TYPE_STATIC, PT_OPAQUE),
     Upload(RG_GEOMETRY_TYPE_STATIC_MOVABLE, PT_ALPHA_TESTED)}

DynamicUploads ==
    {Upload(RG_GEOMETRY_TYPE_DYNAMIC, PT_OPAQUE)}

\* uploads of the fault specification: one of the collector's class and the
\* ones of the other classes
FaultStaticUploads ==
    {Upload(RG_GEOMETRY_TYPE_STATIC, PT_OPAQUE),
     Upload(RG_GEOMETRY_TYPE_DYNAMIC, PT_OPAQUE)}

FaultDynamicUploads ==
    {Upload(RG_GEOMETRY_TYPE_DYNAMIC, PT_OPAQUE),
     Upload(RG_GEOMETRY_TYPE_STATIC, PT_OPAQUE),
     Upload(RG_GEOMETRY_TYPE_STATIC_MOVABLE, PT_ALPHA_TESTED)}

\* uploads of the movable specification
MovableUploads ==
    {Upload(RG_GEOMETRY_TYPE_STATIC, PT_OPAQUE),
     Upload(RG_GEOMETRY_TYPE_STATIC_MOVABLE, PT_ALPHA_TESTED)}

\* the upload of the build specification
BuildUploads == {Upload(RG_GEOMETRY_TYPE_STATIC_MOVABLE, PT_ALPHA_TESTED)}

\* uploads of the two-slot specification: disjoint geometry for the two slots
DynamicUploadsFrames(frameIndex) ==
    IF frameIndex = 0
    THEN {Upload(RG_GEOMETRY_TYPE_DYNAMIC, PT_OPAQUE)}
    ELSE {Upload(RG_GEOMETRY_TYPE_DYNAMIC, PT_BLEND_ADDITIVE)}

\* the frame slot the one-slot specification drives
DrivenFrames == {0}


(* -------------------------------- Init -------------------------------- *)

StaticFilterSeq == SelectSeq(AllFilters, IsStaticListFilter)
DynamicFilterSeq == SelectSeq(AllFilters, IsDynamicFilter)

\* the indices the static collector can give its geometries
StaticGeomIndices ==
    {GeomInfoIndex(StaticFilterSeq[i], local) :
        i \in DOMAIN StaticFilterSeq, local \in 0 .. (MaxGeomsPerGroup - 1)}

\* the indices of the first geometry of each static group
FirstGeomIndices == {GeomInfoIndex(StaticFilterSeq[i], 0) : i \in DOMAIN StaticFilterSeq}

\* RgTransform values: as uploaded, and one other
Transforms == {0, 1}

EmptyCollector(filters) == [collecting |-> FALSE, geoms |-> [x \in {filters[i] : i \in DOMAIN filters} |-> 0]]

NewTLAS == [as |-> VK_NULL_HANDLE, size |-> 0, primitiveCount |-> 0, inputsOrdered |-> TRUE, sync |-> "none"]

UniformInts == 0 .. (UniformOffsetVec4Count * 4 - 1)

AnyLive(list) == \E i \in DOMAIN list : list[i].as # VK_NULL_HANDLE

\* the process was not stopped by a failed assert or by undefined behaviour
Running == run \notin {"aborted", "crashed"}

\* buffers no shader invocation reads, and no call
NoShaderInput == [geometryInstances |-> <<>>, geomIndexPrevToCur |-> <<>>, instanceGeomInfoOffsetPrev |-> <<>>]

NoCall == [call |-> "none"]

NoBlit == [dst |-> VK_NULL_HANDLE, width |-> 0, height |-> 0, frameIndex |-> 0, recorded |-> FALSE]

\* PassImageDef with every handle null
NullPassImageDef ==
    [image |-> [f \in Frames |-> VK_NULL_HANDLE],
     view |-> [f \in Frames |-> VK_NULL_HANDLE],
     memory |-> [f \in Frames |-> VK_NULL_HANDLE]]

\* the members of RasterPass after its constructor
RasterConstructed ==
    /\ colorAttchs = NullPassImageDef
    /\ depthAttchs = NullPassImageDef
    /\ rasterFramebuffers = [f \in Frames |-> VK_NULL_HANDLE]
    /\ rasterSkyFramebuffers = [f \in Frames |-> VK_NULL_HANDLE]
    /\ rasterWidth = 0
    /\ rasterHeight = 0
    /\ thrown = "none"
    /\ finalBlit = NoBlit

\* no shader runs
ShaderIdle ==
    /\ shaderIn = NoShaderInput
    /\ shaderOut = NoCall

\* the objects ASManager holds after its constructor
Constructed ==
    /\ collectorStatic = EmptyCollector(StaticFilterSeq)
    /\ collectorDynamic = [f \in Frames |-> EmptyCollector(DynamicFilterSeq)]
    /\ allStaticBlas = [i \in DOMAIN StaticFilterSeq |-> NewAS(StaticFilterSeq[i])]
    /\ allDynamicBlas = [f \in Frames |-> [i \in DOMAIN DynamicFilterSeq |-> NewAS(DynamicFilterSeq[i])]]
    /\ tlas = [f \in Frames |-> NewTLAS]
    /\ instanceBuffers = [f \in Frames |-> <<>>]
    /\ uniform = [k \in UniformInts |-> Uninit]
    /\ asDescSets = [f \in Frames |-> VK_NULL_HANDLE]
    /\ staticCopyFence = "unsignaled"
    /\ gpuPending = {}
    /\ pc = "idle"
    /\ staticLog = <<>>
    /\ tlasRet = [f \in Frames |-> "none"]
    /\ fresh = TRUE
    /\ staticSkips = 0
    /\ transforms = [g \in StaticGeomIndices |-> 0]
    /\ builderQueue = <<>>
    /\ addRet = [static |-> "none", dynamic |-> [f \in Frames |-> "none"]]

\* a release build on a device that can allocate
Init ==
    /\ Constructed
    /\ run = "release"
    /\ device = "ok"
    /\ ShaderIdle
    /\ RasterConstructed

\* a release or a debug build
InitFaults ==
    /\ Constructed
    /\ run \in {"release", "debug"}
    /\ device = "ok"
    /\ ShaderIdle
    /\ RasterConstructed

\* the process stops (a failed assert of a debug build, or undefined behaviour
\* that ends a release build): its objects are gone with it
Stop(how) ==
    /\ run' = how
    /\ collectorStatic' = EmptyCollector(StaticFilterSeq)
    /\ collectorDynamic' = [f \in Frames |-> EmptyCollector(DynamicFilterSeq)]
    /\ allStaticBlas' = [i \in DOMAIN StaticFilterSeq |-> NewAS(StaticFilterSeq[i])]
    /\ allDynamicBlas' = [f \in Frames |-> [i \in DOMAIN DynamicFilterSeq |-> NewAS(DynamicFilterSeq[i])]]
    /\ tlas' = [f \in Frames |-> NewTLAS]
    /\ instanceBuffers' = [f \in Frames |-> <<>>]
    /\ uniform' = [k \in UniformInts |-> Uninit]
    /\ asDescSets' = [f \in Frames |-> VK_NULL_HANDLE]
    /\ staticCopyFence' = "unsignaled"
    /\ gpuPending' = {}
    /\ pc' = "idle"
    /\ staticLog' = <<>>
    /\ tlasRet' = [f \in Frames |-> "none"]
    /\ fresh' = TRUE
    /\ staticSkips' = 0
    /\ transforms' = [g \in StaticGeomIndices |-> 0]
    /\ builderQueue' = <<>>
    /\ device' = device
    /\ addRet' = [static |-> "none", dynamic |-> [f \in Frames |-> "none"]]

\* the device runs out of memory: from now on allocations return
\* VK_ERROR_OUT_OF_DEVICE_MEMORY
DeviceExhausted ==
    /\ Running
    /\ device = "ok"
    /\ device' = "exhausted"
    /\ UNCHANGED <<collectorStatic, collectorDynamic, allStaticBlas, allDynamicBlas, tlas, instanceBuffers,
                   uniform, asDescSets, staticCopyFence, gpuPending, pc, staticLog, tlasRet, fresh,
                   staticSkips, transforms, builderQueue, run, addRet>>
    /\ UNCHANGED outsideManager

(* --------------------------- static geometry -------------------------- *)

staticFlags == CF_STATIC_NON_MOVABLE + CF_STATIC_MOVABLE

\* VertexCollector::Reset, BeginCollecting, EndCollecting, AddGeometry
Reset(col) == [col EXCEPT !.geoms = [x \in DOMAIN col.geoms |-> 0]]
BeginCollecting(col) == [col EXCEPT !.collecting = TRUE]
EndCollecting(col) == [col EXCEPT !.collecting = FALSE]
AddGeometry(col, info) == [col EXCEPT !.geoms[GetFilter(info)] = @ + 1]

\* a Begin that goes on collecting into what the collector holds
BeginWithoutReset(col) == BeginCollecting(col)

\* what BeginStaticGeometry and BeginDynamicGeometry do to their collector:
\* Reset, then BeginCollecting
BeginCycle(col) == BeginCollecting(Reset(col))

ResetStaticGeometry ==
    /\ Running
    /\ pc = "idle"
    /\ collectorStatic' = Reset(collectorStatic)
    /\ transforms' = [g \in StaticGeomIndices |-> 0]
    /\ fresh' = (fresh /\ ~AnyLive(allStaticBlas))
    /\ UNCHANGED <<collectorDynamic, allStaticBlas, allDynamicBlas, tlas, instanceBuffers,
                   uniform, asDescSets, staticCopyFence, gpuPending, pc, staticLog, tlasRet, staticSkips>>
    /\ addRet' = [addRet EXCEPT !.static = "none"]
    /\ UNCHANGED <<builderQueue, run, device>>
    /\ UNCHANGED outsideManager

BeginStaticGeometry ==
    /\ Running
    /\ pc = "idle"
    /\ collectorStatic' = BeginCycle(collectorStatic)
    /\ transforms' = [g \in StaticGeomIndices |-> 0]
    /\ fresh' = (fresh /\ ~AnyLive(allStaticBlas))
    /\ UNCHANGED <<collectorDynamic, allStaticBlas, allDynamicBlas, tlas, instanceBuffers,
                   uniform, asDescSets, staticCopyFence, gpuPending, pc, staticLog, tlasRet, staticSkips>>
    /\ addRet' = [addRet EXCEPT !.static = "none"]
    /\ UNCHANGED <<builderQueue, run, device>>
    /\ UNCHANGED outsideManager

\* what AddStaticGeometry returns: the geometry's index, or UINT32_MAX
AddStaticGeometryResult(info) ==
    IF info.geomType \in {RG_GEOMETRY_TYPE_STATIC, RG_GEOMETRY_TYPE_STATIC_MOVABLE}
    THEN GeomInfoIndex(GetFilter(info), collectorStatic.geoms[GetFilter(info)])
    ELSE "UINT32_MAX"

\* the test of AddStaticGeometry without the type check
AcceptsAnyType(info) == TRUE

\* the test of AddStaticGeometry on info.geomType
IsStaticType(info) == info.geomType \in {RG_GEOMETRY_TYPE_STATIC, RG_GEOMETRY_TYPE_STATIC_MOVABLE}

\* the number of geometries a collector holds for a filter
GroupCount(col, filter) == IF filter \in DOMAIN col.geoms THEN col.geoms[filter] ELSE 0

AddStaticGeometry(info) ==
    /\ Running
    /\ pc = "idle"
    /\ collectorStatic.collecting
    /\ IF IsStaticType(info)
       THEN /\ GroupCount(collectorStatic, GetFilter(info)) < MaxGeomsPerGroup
            /\ collectorStatic' = AddGeometry(collectorStatic, info)
            /\ staticSkips' = 0
            /\ addRet' = [addRet EXCEPT !.static = "index"]
            /\ UNCHANGED <<collectorDynamic, allStaticBlas, allDynamicBlas, tlas, instanceBuffers,
                           uniform, asDescSets, staticCopyFence, gpuPending, pc, staticLog, tlasRet, fresh,
                           transforms, builderQueue, run, device>>
       ELSE IF run = "debug"
       THEN Stop("aborted")
       ELSE /\ addRet' = [addRet EXCEPT !.static = "UINT32_MAX"]
            /\ UNCHANGED <<collectorStatic, staticSkips, collectorDynamic, allStaticBlas, allDynamicBlas, tlas,
                           instanceBuffers, uniform, asDescSets, staticCopyFence, gpuPending, pc, staticLog,
                           tlasRet, fresh, transforms, builderQueue, run, device>>
    /\ UNCHANGED outsideManager

\* a submit that keeps the previous static structures
KeepPreviousStatic(list) == list

\* the loop over allStaticBlas that destroys the previous static structures
DestroyPreviousStatic(list) ==
    [i \in DOMAIN list |-> IF HasAny(list[i].filter, staticFlags) THEN DestroyAS(list[i]) ELSE list[i]]

DestroySteps(list) ==
    Flatten([i \in DOMAIN list |->
        IF HasAny(list[i].filter, staticFlags) THEN <<Step("DestroyAS", list[i].filter)>> ELSE <<>>])

\* a submit that hands the command sequence to the queue before the builds
SubmitBeforeBuildSteps(queue) ==
    <<Step("StartGraphicsCmd", 0), Step("Submit:staticCopyFence", 0), Step("CopyFromStaging:barrier", 0)>>
    \o QueueSteps(queue)
    \o BuildBottomLevelCmds

\* the commands SubmitStaticGeometry records when there is static data
StaticSubmitSteps(queue) ==
    <<Step("StartGraphicsCmd", 0), Step("CopyFromStaging:barrier", 0)>>
    \o QueueSteps(queue)
    \o BuildBottomLevelCmds
    \o <<Step("Submit:staticCopyFence", 0)>>

\* a submit that returns without waiting
SubmitAndReturn == "idle"

\* after cmdManager->Submit the call waits for the fence
SubmitAndWait == "waitFence"

\* the loop of SubmitStaticGeometry that sets up the static records after the
\* previous structures are destroyed, and what it enqueues
StaticSetup ==
    LET destroyed == DestroyPreviousStatic(allStaticBlas)
    IN  [i \in DOMAIN destroyed |->
            IF HasAny(destroyed[i].filter, staticFlags)
            THEN SetupBLAS(destroyed[i], collectorStatic)
            ELSE [as |-> destroyed[i], queued |-> <<>>, failed |-> FALSE]]

\* a structure of the static submission could not be created
StaticCreateFailed ==
    /\ device # "ok"
    /\ ~AreGeometriesEmpty(collectorStatic, staticFlags)
    /\ LET setup == StaticSetup
       IN  \E i \in DOMAIN setup : setup[i].failed

StaticQueue ==
    LET setup == StaticSetup
    IN  Flatten([i \in DOMAIN setup |-> setup[i].queued])

\* SubmitStaticGeometry up to and including cmdManager->Submit; with static
\* data it goes on in WaitAndResetFence
SubmitStaticGeometry ==
    /\ Running
    /\ pc = "idle"
    /\ IF run = "debug" /\ (~IsEmpty(builderQueue) \/ StaticCreateFailed)
       THEN Stop("aborted")
       ELSE
          \/ /\ collectorStatic' = EndCollecting(collectorStatic)
             /\ LET destroyed == DestroyPreviousStatic(allStaticBlas)
                    pre == <<Step("EndCollecting", 0)>> \o DestroySteps(allStaticBlas)
                IN  IF AreGeometriesEmpty(collectorStatic, staticFlags)
                    THEN /\ allStaticBlas' = destroyed
                         /\ staticLog' = pre
                         /\ staticSkips' = (IF staticSkips < 2 THEN staticSkips + 1 ELSE 2)
                         /\ UNCHANGED <<gpuPending, pc, builderQueue>>
                    ELSE LET setup == StaticSetup
                             queue == StaticQueue
                         IN  /\ allStaticBlas' = BuildBottomLevel([i \in DOMAIN setup |-> setup[i].as],
                                                              builderQueue \o queue, BuildBottomLevelCmds)
                             /\ builderQueue' = Flushed(builderQueue \o queue)
                             /\ gpuPending' = FilterSet(queue)
                             /\ pc' = SubmitAndWait
                             /\ staticLog' = pre \o StaticSubmitSteps(queue)
                             /\ staticSkips' = 0
             /\ UNCHANGED <<collectorDynamic, allDynamicBlas, tlas, instanceBuffers,
                            uniform, asDescSets, staticCopyFence, tlasRet, fresh>>
             /\ UNCHANGED <<transforms, run, device, addRet>>
          \/ /\ StaticCreateFailed
             /\ Stop("crashed")
    /\ UNCHANGED outsideManager

\* the graphics queue runs the submitted command buffer and signals its fence
GpuExecute ==
    /\ Running
    /\ gpuPending # {}
    /\ staticCopyFence = "unsignaled"
    /\ gpuPending' = {}
    /\ staticCopyFence' = "signaled"
    /\ UNCHANGED <<collectorStatic, collectorDynamic, allStaticBlas, allDynamicBlas, tlas,
                   instanceBuffers, uniform, asDescSets, pc, staticLog, tlasRet, fresh, staticSkips>>
    /\ UNCHANGED <<transforms, builderQueue, run, device, addRet>>
    /\ UNCHANGED outsideManager

\* Utils::WaitAndResetFence, and the return of SubmitStaticGeometry
WaitAndResetFence ==
    /\ Running
    /\ pc = "waitFence"
    /\ staticCopyFence = "signaled"
    /\ staticCopyFence' = "unsignaled"
    /\ pc' = "idle"
    /\ staticLog' = staticLog \o <<Step("WaitAndResetFence:staticCopyFence", 0)>>
    /\ UNCHANGED <<collectorStatic, collectorDynamic, allStaticBlas, allDynamicBlas, tlas,
                   instanceBuffers, uniform, asDescSets, gpuPending, tlasRet, fresh, staticSkips>>
    /\ UNCHANGED <<transforms, builderQueue, run, device, addRet>>
    /\ UNCHANGED outsideManager

(* -------------------------- dynamic geometry -------------------------- *)

BeginDynamicGeometry(frameIndex) ==
    /\ Running
    /\ pc = "idle"
    /\ collectorDynamic' = [collectorDynamic EXCEPT ![frameIndex] = BeginCycle(@)]
    /\ fresh' = (fresh /\ ~AnyLive(allDynamicBlas[frameIndex]))
    /\ addRet' = [addRet EXCEPT !.dynamic[frameIndex] = "none"]
    /\ UNCHANGED <<collectorStatic, allStaticBlas, allDynamicBlas, tlas, instanceBuffers,
                   uniform, asDescSets, staticCopyFence, gpuPending, pc, staticLog, tlasRet, staticSkips>>
    /\ UNCHANGED <<transforms, builderQueue, run, device>>
    /\ UNCHANGED outsideManager

\* what AddDynamicGeometry returns: the geometry's index, or UINT32_MAX
AddDynamicGeometryResult(info, frameIndex) ==
    IF info.geomType = RG_GEOMETRY_TYPE_DYNAMIC
    THEN GeomInfoIndex(GetFilter(info), collectorDynamic[frameIndex].geoms[GetFilter(info)])
    ELSE "UINT32_MAX"

\* the frame slot whose collector AddDynamicGeometry(info, frameIndex) appends to
DynamicCollectorSlot(frameIndex) == frameIndex

\* the test of AddDynamicGeometry on info.geomType
IsDynamicType(info) == info.geomType = RG_GEOMETRY_TYPE_DYNAMIC

AddDynamicGeometry(info, frameIndex) ==
    /\ Running
    /\ pc = "idle"
    /\ collectorDynamic[DynamicCollectorSlot(frameIndex)].collecting
    /\ IF IsDynamicType(info)
       THEN /\ GroupCount(collectorDynamic[DynamicCollectorSlot(frameIndex)], GetFilter(info)) < MaxGeomsPerGroup
            /\ collectorDynamic' = [collectorDynamic EXCEPT ![DynamicCollectorSlot(frameIndex)] = AddGeometry(@, info)]
            /\ addRet' = [addRet EXCEPT !.dynamic[frameIndex] = "index"]
            /\ UNCHANGED <<collectorStatic, allStaticBlas, allDynamicBlas, tlas, instanceBuffers, uniform,
                           asDescSets, staticCopyFence, gpuPending, pc, staticLog, tlasRet, fresh, staticSkips,
                           transforms, builderQueue, run, device>>
       ELSE IF run = "debug"
       THEN Stop("aborted")
       ELSE /\ addRet' = [addRet EXCEPT !.dynamic[frameIndex] = "UINT32_MAX"]
            /\ UNCHANGED <<collectorStatic, collectorDynamic, allStaticBlas, allDynamicBlas, tlas,
                           instanceBuffers, uniform, asDescSets, staticCopyFence, gpuPending, pc, staticLog,
                           tlasRet, fresh, staticSkips, transforms, builderQueue, run, device>>
    /\ UNCHANGED outsideManager

\* one list of dynamic records shared by the frame slots
SharedBlasSlot(frameIndex) == 0

\* the frame slot whose dynamic records SubmitDynamicGeometry(frameIndex) sets up
DynamicBlasSlot(frameIndex) == frameIndex

\* the commands SubmitDynamicGeometry records
DynamicSubmitSteps(queue) ==
    <<Step("EndCollecting", 0), Step("CopyFromStaging", 0)>>
    \o QueueSteps(queue)
    \o (IF queue = <<>> THEN <<>> ELSE BuildBottomLevelCmds)

\* the loop of SubmitDynamicGeometry over the slot's records, and what it enqueues
DynamicSetup(frameIndex) ==
    [i \in DOMAIN allDynamicBlas[DynamicBlasSlot(frameIndex)] |->
        SetupBLAS(allDynamicBlas[DynamicBlasSlot(frameIndex)][i], collectorDynamic[frameIndex])]

\* a structure of the dynamic submission could not be created
DynamicCreateFailed(frameIndex) ==
    /\ device # "ok"
    /\ ~AreGeometriesEmpty(collectorDynamic[frameIndex], CF_DYNAMIC)
    /\ LET setup == DynamicSetup(frameIndex)
       IN  \E i \in DOMAIN setup : setup[i].failed

DynamicQueue(frameIndex) ==
    LET setup == DynamicSetup(frameIndex)
    IN  Flatten([i \in DOMAIN setup |-> setup[i].queued])

SubmitDynamicGeometry(frameIndex) ==
    /\ Running
    /\ pc = "idle"
    /\ IF run = "debug" /\ (~IsEmpty(builderQueue) \/ DynamicCreateFailed(frameIndex))
       THEN Stop("aborted")
       ELSE
          \/ /\ collectorDynamic' = [collectorDynamic EXCEPT ![frameIndex] = EndCollecting(@)]
             /\ LET colDyn == collectorDynamic[frameIndex]
                    slot == DynamicBlasSlot(frameIndex)
                IN  IF AreGeometriesEmpty(colDyn, CF_DYNAMIC)
                    THEN UNCHANGED <<allDynamicBlas, builderQueue>>
                    ELSE LET setup == DynamicSetup(frameIndex)
                             queue == DynamicQueue(frameIndex)
                         IN  /\ allDynamicBlas' = [allDynamicBlas EXCEPT ![slot] =
                                                      BuildBottomLevel([i \in DOMAIN setup |-> setup[i].as],
                                                                       builderQueue \o queue, BuildBottomLevelCmds)]
                             /\ builderQueue' = Flushed(builderQueue \o queue)
             /\ UNCHANGED <<collectorStatic, allStaticBlas, tlas, instanceBuffers,
                            uniform, asDescSets, staticCopyFence, gpuPending, pc, staticLog, tlasRet, fresh, staticSkips>>
             /\ UNCHANGED <<transforms, run, device, addRet>>
          \/ /\ DynamicCreateFailed(frameIndex)
             /\ Stop("crashed")
    /\ UNCHANGED outsideManager

(* --------------------------- movable static --------------------------- *)

\* the indices of the movable geometries the static collector holds
MovableGeomIndices ==
    UNION {{GeomInfoIndex(filter, local) : local \in 0 .. (collectorStatic.geoms[filter] - 1)} :
              filter \in {f \in DOMAIN collectorStatic.geoms : HasBit(f, CF_STATIC_MOVABLE)}}

\* VertexCollector::UpdateTransform
UpdateTransform(table, geomIndex, transform) == [table EXCEPT ![geomIndex] = transform]

UpdateStaticMovableTransform(geomIndex, transform) ==
    /\ Running
    /\ pc = "idle"
    /\ geomIndex \in MovableGeomIndices
    /\ transforms' = UpdateTransform(transforms, geomIndex, transform)
    /\ UNCHANGED <<collectorStatic, collectorDynamic, allStaticBlas, allDynamicBlas, tlas, instanceBuffers,
                   uniform, asDescSets, staticCopyFence, gpuPending, pc, staticLog, tlasRet, fresh, staticSkips,
                   builderQueue, run, device, addRet>>
    /\ UNCHANGED outsideManager

\* an update that is submitted and waited for like the static build
SubmitAfterUpdate ==
    BuildBottomLevelCmds
    \o <<Step("ASBuildMemoryBarrier", 0), Step("Submit:staticCopyFence", 0),
         Step("WaitAndResetFence:staticCopyFence", 0)>>

\* the commands ResubmitStaticMovable records from the build on
MovableCmds == BuildBottomLevelCmds \o <<Step("ASBuildMemoryBarrier", 0)>>

\* a test for any static class instead of the movable one
IsStaticFilter(filter) == HasAny(filter, CF_STATIC_NON_MOVABLE + CF_STATIC_MOVABLE)

\* the test of ResubmitStaticMovable on blas.filter
IsMovableFilter(filter) == HasBit(filter, CF_STATIC_MOVABLE)

\* a loop that updates every static record, movable or not
AllStaticUpdates == [i \in DOMAIN allStaticBlas |-> UpdateBLAS(allStaticBlas[i], collectorStatic)]

\* the loop of ResubmitStaticMovable over allStaticBlas, and what it enqueues
MovableUpdates ==
    [i \in DOMAIN allStaticBlas |->
        IF IsMovableFilter(allStaticBlas[i].filter)
        THEN UpdateBLAS(allStaticBlas[i], collectorStatic)
        ELSE [as |-> allStaticBlas[i], queued |-> <<>>, asserted |-> TRUE]]

MovableQueue ==
    LET updates == MovableUpdates
    IN  Flatten([i \in DOMAIN updates |-> updates[i].queued])

\* everything ResubmitStaticMovable records into cmd
ResubmitSteps ==
    IF AreGeometriesEmpty(collectorStatic, CF_STATIC_MOVABLE)
    THEN <<>>
    ELSE QueueSteps(MovableQueue) \o MovableCmds

\* the assert of UpdateBLAS holds for every record of the loop
MovableAsserted ==
    LET updates == MovableUpdates
    IN  \A i \in DOMAIN updates : updates[i].asserted

\* a return without the call of BuildBottomLevel
ReturnBeforeFlush(queue) == queue

\* asBuilder->BuildBottomLevel(cmd) at the end of ResubmitStaticMovable
FlushMovable(queue) == Flushed(queue)

ResubmitStaticMovable ==
    /\ Running
    /\ pc = "idle"
    /\ IF AreGeometriesEmpty(collectorStatic, CF_STATIC_MOVABLE)
       THEN UNCHANGED vars
       ELSE IF run = "debug" /\ ~(IsEmpty(builderQueue) /\ MovableAsserted)
       THEN Stop("aborted")
       ELSE \/ /\ LET updates == MovableUpdates
                      queue == MovableQueue
                  IN  /\ allStaticBlas' = BuildBottomLevel([i \in DOMAIN updates |-> updates[i].as],
                                                           builderQueue \o queue, MovableCmds)
                      /\ builderQueue' = FlushMovable(builderQueue \o queue)
               /\ UNCHANGED <<collectorStatic, collectorDynamic, allDynamicBlas, tlas, instanceBuffers,
                              uniform, asDescSets, staticCopyFence, gpuPending, pc, staticLog, tlasRet,
                              fresh, staticSkips, transforms, run, device, addRet>>
            \/ /\ ~MovableAsserted
               /\ Stop("crashed")
    /\ UNCHANGED outsideManager

(* ------------------------------- TLAS --------------------------------- *)

\* an instance set up for every record, live or not
AlwaysAddInstance(as) ==
    [isAdded |-> TRUE,
     instance |-> [accelerationStructureReference |-> GetASAddress(as)]]

\* a test that takes only the additive blend class for blended
IsAdditive(filter) == HasBit(filter, PT_BLEND_ADDITIVE)

\* the test of SetupTLASInstance for "blended geometries don't have shadows"
IsBlended(filter) == HasAny(filter, PT_BLEND_ADDITIVE + PT_BLEND_UNDER)

\* SetupTLASInstance: whether the instance was set up, and the instance
SetupTLASInstance(as) ==
    [isAdded |-> as.as # VK_NULL_HANDLE,
     instance |->
        [accelerationStructureReference |-> GetASAddress(as),
         instanceCustomIndex |-> IF HasBit(as.filter, CF_DYNAMIC) THEN INSTANCE_CUSTOM_INDEX_FLAG_DYNAMIC ELSE 0,
         mask |-> IF IsBlended(as.filter)
                  THEN "~INSTANCE_MASK_HAS_SHADOWS" ELSE "INSTANCE_MASK_HAS_SHADOWS",
         instanceShaderBindingTableRecordOffset |->
                  IF HasBit(as.filter, PT_OPAQUE) THEN "SBT_INDEX_HITGROUP_FULLY_OPAQUE"
                  ELSE IF HasBit(as.filter, PT_ALPHA_TESTED) THEN "SBT_INDEX_HITGROUP_ALPHA_TESTED"
                  ELSE IF HasBit(as.filter, PT_BLEND_ADDITIVE) THEN "SBT_INDEX_HITGROUP_BLEND_ADDITIVE"
                  ELSE IF HasBit(as.filter, PT_BLEND_UNDER) THEN "SBT_INDEX_HITGROUP_BLEND_UNDER"
                  ELSE "zero",
         flags |-> IF HasBit(as.filter, PT_OPAQUE)
                   THEN {"FORCE_OPAQUE", "TRIANGLE_FACING_CULL_DISABLE"}
                   ELSE {"FORCE_NO_OPAQUE", "TRIANGLE_FACING_CULL_DISABLE"}]]

\* the locals of TryBuildTLAS before its loops
AssemblyStart ==
    [instanceCount |-> 0,
     instances |-> <<>>,
     instanceGeomInfoOffset |-> [k \in 0 .. (MAX_TOP_LEVEL_INSTANCE_COUNT * 4 - 1) |-> Uninit],
     asserted |-> TRUE]

\* every instance is given the offset of the first group
FirstGroupOffset(filter) == 0

\* the value TryBuildTLAS writes into instanceGeomInfoOffset for a record
GeomInfoBaseOffset(filter) ==
    VertexCollectorFilterTypeFlagsToOffset(filter) * MAX_BOTTOM_LEVEL_GEOMETRIES_COUNT

\* the loop body of TryBuildTLAS over a list of records
RECURSIVE AssembleInstances(_, _)
AssembleInstances(list, acc) ==
    IF list = <<>> THEN acc
    ELSE LET r == SetupTLASInstance(Head(list))
             next == IF r.isAdded
                     THEN [instanceCount |-> acc.instanceCount + 1,
                           instances |-> Append(acc.instances, r.instance),
                           instanceGeomInfoOffset |->
                               [acc.instanceGeomInfoOffset EXCEPT ![acc.instanceCount * 4] =
                                   GeomInfoBaseOffset(Head(list).filter)],
                           asserted |-> acc.asserted /\ (acc.instanceCount + 1 < MAX_TOP_LEVEL_INSTANCE_COUNT)]
                     ELSE acc
         IN  AssembleInstances(Tail(list), next)

\* memcpy of instanceCount * 4 ints into the uniform's table
CopyToUniform(table, local, instanceCount) ==
    [k \in DOMAIN table |-> IF k < instanceCount * 4 /\ k \in DOMAIN local THEN local[k] ELSE Uninit]

\* memcpy of the instances into the mapped instance buffer
CopyToInstanceBuffer(buffer, instances) ==
    instances

\* commands TryBuildTLAS records for the build
TopLevelCmds == BuildTopLevelCmds \o <<Step("ASBuildMemoryBarrier", 0)>>

\* the frame slot whose TLAS record and instance buffer TryBuildTLAS(frameIndex) uses
TlasSlot(frameIndex) == frameIndex

IsLive(b) == b.as # VK_NULL_HANDLE

\* an assembly that walks the slot's dynamic records before the static ones
DynamicFirstAssembly(frameIndex) ==
    AssembleInstances(allStaticBlas, AssembleInstances(allDynamicBlas[frameIndex], AssemblyStart))

\* the instances TryBuildTLAS assembles from the static and the slot's dynamic records
TlasAssembly(frameIndex) ==
    AssembleInstances(allDynamicBlas[frameIndex], AssembleInstances(allStaticBlas, AssemblyStart))

\* what TryBuildTLAS enqueues with AddTLAS
TlasQueue(as, instanceCount) ==
    <<[as |-> as, filter |-> 0, geoms |-> instanceCount, size |-> GetTopBuildSizes(instanceCount),
       fastTrace |-> TRUE, queried |-> FALSE, update |-> FALSE]>>

\* a top-level structure that is destroyed and created at every build
AlwaysNewTLAS(curTlas, size) == TRUE

\* the test of TryBuildTLAS on the size of the slot's TLAS buffer
NeedsNewTLAS(curTlas, size) == curTlas.size < size

\* DestroyAS, CreateASBuffer and svkCreateAccelerationStructureKHR for a TLAS record
CreateTLAS(curTlas, size) ==
    IF device = "ok"
    THEN [curTlas EXCEPT !.as = CreateHandle(curTlas.as), !.size = size]
    ELSE [curTlas EXCEPT !.as = VK_NULL_HANDLE, !.size = 0]

\* the TLAS of the slot has to be created and cannot be
TlasCreateFailed(frameIndex) ==
    /\ device # "ok"
    /\ LET instanceCount == TlasAssembly(frameIndex).instanceCount
       IN  /\ instanceCount # 0
           /\ tlas[TlasSlot(frameIndex)].size < GetTopBuildSizes(instanceCount)

\* a return of false placed after the copy into the uniform
CopyBeforeReturn(table, a) == CopyToUniform(table, a.instanceGeomInfoOffset, a.instanceCount)

\* the uniform's table when TryBuildTLAS returns false: the return precedes
\* the copy
UniformOnReturnFalse(table, a) == table

TryBuildTLAS(frameIndex) ==
    /\ Running
    /\ pc = "idle"
    /\ IF run = "debug" /\ TlasAssembly(frameIndex).instanceCount # 0
          /\ (~IsEmpty(builderQueue) \/ TlasCreateFailed(frameIndex))
       THEN Stop("aborted")
       ELSE
          \/ /\ LET slot == TlasSlot(frameIndex)
                    a == TlasAssembly(frameIndex)
                    inputs == SelectSeq(allStaticBlas \o allDynamicBlas[frameIndex], IsLive)
                    curTlas == tlas[slot]
                    size == GetTopBuildSizes(a.instanceCount)
                    tlas1 == IF NeedsNewTLAS(curTlas, size)
                             THEN CreateTLAS(curTlas, size)
                             ELSE curTlas
                IN  IF a.instanceCount = 0
                    THEN /\ tlasRet' = [tlasRet EXCEPT ![frameIndex] = "false"]
                         /\ uniform' = UniformOnReturnFalse(uniform, a)
                         /\ UNCHANGED <<tlas, instanceBuffers, asDescSets, builderQueue>>
                    ELSE /\ uniform' = CopyToUniform(uniform, a.instanceGeomInfoOffset, a.instanceCount)
                         /\ instanceBuffers' = [instanceBuffers EXCEPT ![slot] = CopyToInstanceBuffer(@, a.instances)]
                         /\ tlas' = [tlas EXCEPT ![slot] =
                                        [tlas1 EXCEPT !.primitiveCount = a.instanceCount,
                                                      !.inputsOrdered = \A i \in DOMAIN inputs : inputs[i].sync = "ordered",
                                                      !.sync = SyncOf(TopLevelCmds)]]
                         /\ asDescSets' = [asDescSets EXCEPT ![slot] = tlas1.as]
                         /\ tlasRet' = [tlasRet EXCEPT ![frameIndex] = "true"]
                         /\ builderQueue' = Flushed(builderQueue \o TlasQueue(tlas1.as, a.instanceCount))
             /\ UNCHANGED <<collectorStatic, collectorDynamic, allStaticBlas, allDynamicBlas,
                            staticCopyFence, gpuPending, pc, staticLog, fresh, staticSkips>>
             /\ UNCHANGED <<transforms, run, device, addRet>>
          \/ /\ TlasCreateFailed(frameIndex)
             /\ Stop("crashed")
    /\ UNCHANGED outsideManager

\* the descriptor sets allocated in CreateDescriptors
AllocatedASDescSet(frameIndex) == frameIndex + 1

GetTLASDescSet(frameIndex) ==
    IF tlas[frameIndex].as = VK_NULL_HANDLE THEN VK_NULL_HANDLE ELSE AllocatedASDescSet(frameIndex)

\* VertexData.inl: instanceGeomInfoOffset[instanceID / 4][instanceID % 4], an
\* ivec4 array over the uniform's memory, i.e. the int number
\* (instanceID / 4) * 4 + instanceID % 4 of it. A read of memory that was
\* never written can give any int.
UninitValues == {-1, 0, MAX_BOTTOM_LEVEL_GEOMETRIES_COUNT}

ReadInt(x) == IF x = Uninit THEN UninitValues ELSE {x}

\* the values getGeometryIndex can return on the table u
getGeometryIndex(u, instanceID, localGeometryIndex) ==
    {v + localGeometryIndex : v \in ReadInt(u[(instanceID \div 4) * 4 + (instanceID % 4)])}

(* ------------------------ shaders: VertexData.inl --------------------- *)

\* the width of int and uint, narrowed from 32 bits: every index and offset
\* of the model is far below the sign bit
WordBits == 24

\* the uint with every bit set
UINT32_MAX == 2^WordBits - 1

\* a uint of the shader read as int, and an int converted to uint
AsInt(u) == IF u >= 2^(WordBits - 1) THEN u - 2^WordBits ELSE u
ToUint(i) == i % 2^WordBits

\* #define GEOM_INST_FLAG_IS_MOVABLE (1 << 31): the top bit of the uint it is
\* and-ed with
GEOM_INST_FLAG_IS_MOVABLE == 2^(WordBits - 1)

\* the metadata indices the shader's buffers hold a geometry for: the first
\* geometry of the static opaque group and of the dynamic opaque group
ShaderGeomIndices ==
    {GeomInfoIndex(CF_STATIC_NON_MOVABLE + PT_OPAQUE, 0), GeomInfoIndex(CF_DYNAMIC + PT_OPAQUE, 0)}

\* primitives per geometry and the vertices the position buffers hold
PrimitiveIds == {0, 1}
VertexIndices == 0 .. 11

\* ShGeometryInstance, with transforms as scale factors of one coordinate
ShGeometryInstances ==
    [model : {2},
     prevModel : {3},
     flags : {0, GEOM_INST_FLAG_IS_MOVABLE},
     baseVertexIndex : {0},
     baseIndexIndex : {UINT32_MAX, 0},
     prevBaseVertexIndex : {UINT32_MAX, 6},
     prevBaseIndexIndex : {UINT32_MAX}]

\* the index buffers (every primitive is indexed backwards) and the
\* position buffers, one coordinate per vertex
staticIndices == [k \in 0 .. 5 |-> 5 - k]
dynamicIndices == [k \in 0 .. 5 |-> 5 - k]
prevDynamicIndices == [k \in 0 .. 5 |-> 5 - k]

getStaticVerticesPositions(index) == 100 + index
getDynamicVerticesPositions(index) == 200 + index
getPrevDynamicVerticesPositions(index) == 300 + index

getVertIndicesStatic(baseVertexIndex, baseIndexIndex, primitiveId) ==
    IF baseIndexIndex # UINT32_MAX
    THEN [k \in 1 .. 3 |-> ToUint(baseVertexIndex + staticIndices[baseIndexIndex + primitiveId * 3 + (k - 1)])]
    ELSE [k \in 1 .. 3 |-> ToUint(baseVertexIndex + primitiveId * 3 + (k - 1))]

getVertIndicesDynamic(baseVertexIndex, baseIndexIndex, primitiveId) ==
    IF baseIndexIndex # UINT32_MAX
    THEN [k \in 1 .. 3 |-> ToUint(baseVertexIndex + dynamicIndices[baseIndexIndex + primitiveId * 3 + (k - 1)])]
    ELSE [k \in 1 .. 3 |-> ToUint(baseVertexIndex + primitiveId * 3 + (k - 1))]

getPrevVertIndicesDynamic(prevBaseVertexIndex, prevBaseIndexIndex, primitiveId) ==
    IF prevBaseIndexIndex # UINT32_MAX
    THEN [k \in 1 .. 3 |-> ToUint(prevBaseVertexIndex + prevDynamicIndices[prevBaseIndexIndex + primitiveId * 3 + (k - 1)])]
    ELSE [k \in 1 .. 3 |-> ToUint(prevBaseVertexIndex + primitiveId * 3 + (k - 1))]

\* (instanceCustomIndex & INSTANCE_CUSTOM_INDEX_FLAG_DYNAMIC) == INSTANCE_CUSTOM_INDEX_FLAG_DYNAMIC
isDynamic(instanceCustomIndex) == HasBit(instanceCustomIndex, INSTANCE_CUSTOM_INDEX_FLAG_DYNAMIC)

\* (inst.flags & GEOM_INST_FLAG_IS_MOVABLE) != 0
isMovable(inst) == HasBit(inst.flags, GEOM_INST_FLAG_IS_MOVABLE)

\* previous data taken as present for every geometry
AlwaysHasPrevInfo(inst) == TRUE

\* inst.prevBaseVertexIndex != UINT32_MAX
hasPrevInfo(inst) == inst.prevBaseVertexIndex # UINT32_MAX

\* getTriangle from the read of inst on: positions and prevPositions in
\* world space
TriangleOf(inst, instanceCustomIndex, primitiveId) ==
    IF isDynamic(instanceCustomIndex)
    THEN LET vertIndices == getVertIndicesDynamic(inst.baseVertexIndex, inst.baseIndexIndex, primitiveId)
             positions == [k \in 1 .. 3 |-> inst.model * getDynamicVerticesPositions(vertIndices[k])]
             prevVertIndices == getPrevVertIndicesDynamic(inst.prevBaseVertexIndex, inst.prevBaseIndexIndex, primitiveId)
         IN  [positions |-> positions,
              prevPositions |->
                  IF hasPrevInfo(inst)
                  THEN [k \in 1 .. 3 |-> inst.prevModel * getPrevDynamicVerticesPositions(prevVertIndices[k])]
                  ELSE positions]
    ELSE LET vertIndices == getVertIndicesStatic(inst.baseVertexIndex, inst.baseIndexIndex, primitiveId)
             prevLocalPos == [k \in 1 .. 3 |-> getStaticVerticesPositions(vertIndices[k])]
             positions == [k \in 1 .. 3 |-> inst.model * prevLocalPos[k]]
         IN  [positions |-> positions,
              prevPositions |->
                  IF isMovable(inst) /\ hasPrevInfo(inst)
                  THEN [k \in 1 .. 3 |-> inst.prevModel * prevLocalPos[k]]
                  ELSE positions]

\* getOnlyPrevPositions from the read of inst on
OnlyPrevPositionsOf(inst, instanceCustomIndex, primitiveId) ==
    IF isDynamic(instanceCustomIndex)
    THEN IF hasPrevInfo(inst)
         THEN LET prevVertIndices == getPrevVertIndicesDynamic(inst.prevBaseVertexIndex, inst.prevBaseIndexIndex, primitiveId)
              IN  [k \in 1 .. 3 |-> inst.prevModel * getPrevDynamicVerticesPositions(prevVertIndices[k])]
         ELSE LET vertIndices == getVertIndicesDynamic(inst.baseVertexIndex, inst.baseIndexIndex, primitiveId)
              IN  [k \in 1 .. 3 |-> inst.model * getDynamicVerticesPositions(vertIndices[k])]
    ELSE LET vertIndices == getVertIndicesStatic(inst.baseVertexIndex, inst.baseIndexIndex, primitiveId)
             localPos == [k \in 1 .. 3 |-> getStaticVerticesPositions(vertIndices[k])]
         IN  IF isMovable(inst) /\ hasPrevInfo(inst)
             THEN [k \in 1 .. 3 |-> inst.prevModel * localPos[k]]
             ELSE [k \in 1 .. 3 |-> inst.model * localPos[k]]

\* geometryInstances[globalGeometryIndex]: a read outside of what the buffer
\* holds can give any ShGeometryInstance
ReadGeometryInstance(globalGeometryIndex) ==
    IF globalGeometryIndex \in DOMAIN shaderIn.geometryInstances
    THEN {shaderIn.geometryInstances[globalGeometryIndex]}
    ELSE ShGeometryInstances

\* geomIndexPrevToCur[prevFrameGeomIndex], the uint the CPU wrote read as int;
\* a read outside of the buffer can give any int
ReadPrevToCur(prevFrameGeomIndex) ==
    IF prevFrameGeomIndex \in DOMAIN shaderIn.geomIndexPrevToCur
    THEN {AsInt(shaderIn.geomIndexPrevToCur[prevFrameGeomIndex])}
    ELSE UninitValues

\* the shader stages run on a frame slot whose top-level structure was built
ShaderRuns == Running /\ pc = "idle" /\ tlasRet[0] = "true"

\* ShTriangle getTriangle(instanceID, instanceCustomIndex, localGeometryIndex, primitiveId)
getTriangle(instanceID, instanceCustomIndex, localGeometryIndex, primitiveId) ==
    /\ ShaderRuns
    /\ \E globalGeometryIndex \in getGeometryIndex(uniform, instanceID, localGeometryIndex) :
          \E inst \in ReadGeometryInstance(globalGeometryIndex) :
             LET tr == TriangleOf(inst, instanceCustomIndex, primitiveId)
             IN  shaderOut' = [call |-> "getTriangle", inst |-> inst,
                               instanceCustomIndex |-> instanceCustomIndex, primitiveId |-> primitiveId,
                               positions |-> tr.positions, prevPositions |-> tr.prevPositions]
    /\ UNCHANGED <<managerVars, run, device, shaderIn, rasterVars>>

\* mat3 getOnlyPrevPositions(globalGeometryIndex, instanceCustomIndex, primitiveId)
getOnlyPrevPositions(globalGeometryIndex, instanceCustomIndex, primitiveId) ==
    /\ ShaderRuns
    /\ \E inst \in ReadGeometryInstance(globalGeometryIndex) :
          shaderOut' = [call |-> "getOnlyPrevPositions", inst |-> inst,
                        instanceCustomIndex |-> instanceCustomIndex, primitiveId |-> primitiveId,
                        positions |-> TriangleOf(inst, instanceCustomIndex, primitiveId).positions,
                        prevPositions |-> OnlyPrevPositionsOf(inst, instanceCustomIndex, primitiveId)]
    /\ UNCHANGED <<managerVars, run, device, shaderIn, rasterVars>>

\* bool getCurrentGeometryIndexByPrev(prevInstanceID, prevLocalGeometryIndex, out curFrameGlobalGeomIndex)
getCurrentGeometryIndexByPrev(prevInstanceID, prevLocalGeometryIndex) ==
    /\ ShaderRuns
    /\ \E prevFrameGeomIndex \in getGeometryIndex(shaderIn.instanceGeomInfoOffsetPrev, prevInstanceID, prevLocalGeometryIndex) :
          \E curFrameGlobalGeomIndex \in ReadPrevToCur(prevFrameGeomIndex) :
             shaderOut' = [call |-> "getCurrentGeometryIndexByPrev",
                           prevFrameGeomIndex |-> prevFrameGeomIndex,
                           curFrameGlobalGeomIndex |-> curFrameGlobalGeomIndex,
                           return |-> ToUint(curFrameGlobalGeomIndex) # UINT32_MAX]
    /\ UNCHANGED <<managerVars, run, device, shaderIn, rasterVars>>

(* ----------------------------- RasterPass ----------------------------- *)

\* render sizes the caller asks for
RasterSizes == {1, 2}

\* the dedicated allocations CreateImages asks for: depth and colour memory
\* of every frame slot
MaxAllocs == 2 * MAX_FRAMES_IN_FLIGHT

\* MemoryAllocator::AllocDedicated when the device still grants avail
\* allocations: the memory, or VK_NULL_HANDLE
AllocDedicated(old, avail) == IF avail > 0 THEN CreateHandle(old) ELSE VK_NULL_HANDLE

\* the assertions of DestroyPassImageDef and of CreateImages on slot i
AllOrNone(def, i) ==
    \/ def.image[i] # VK_NULL_HANDLE /\ def.view[i] # VK_NULL_HANDLE /\ def.memory[i] # VK_NULL_HANDLE
    \/ def.image[i] = VK_NULL_HANDLE /\ def.view[i] = VK_NULL_HANDLE /\ def.memory[i] = VK_NULL_HANDLE

IsNullSlot(def, i) ==
    def.image[i] = VK_NULL_HANDLE /\ def.view[i] = VK_NULL_HANDLE /\ def.memory[i] = VK_NULL_HANDLE

\* the loop of CreateImages from slot i on, with avail allocations left:
\* the attachments after it and how it was left ("none": returned,
\* "RgException": thrown, "assert": a debug build stopped at an assert)
RECURSIVE CreateImagesFrom(_, _, _, _)
CreateImagesFrom(i, color, depth, avail) ==
    IF i = MAX_FRAMES_IN_FLIGHT
    THEN [color |-> color, depth |-> depth, thrown |-> "none"]
    ELSE IF run = "debug" /\ ~IsNullSlot(depth, i)
    THEN [color |-> color, depth |-> depth, thrown |-> "assert"]
    ELSE
        LET depthImage == [depth EXCEPT !.image[i] = CreateHandle(@)]
            colorImage == [color EXCEPT !.image[i] = CreateHandle(@)]
            depthMemory == [depthImage EXCEPT !.memory[i] = AllocDedicated(@, avail)]
        IN  IF depthMemory.memory[i] = VK_NULL_HANDLE
            THEN [color |-> colorImage,
                  depth |-> [depthMemory EXCEPT !.image[i] = VK_NULL_HANDLE],
                  thrown |-> "RgException"]
            ELSE
                LET colorMemory == [colorImage EXCEPT !.memory[i] = AllocDedicated(@, avail - 1)]
                IN  IF colorMemory.memory[i] = VK_NULL_HANDLE
                    THEN [color |-> [colorMemory EXCEPT !.image[i] = VK_NULL_HANDLE],
                          depth |-> depthMemory,
                          thrown |-> "RgException"]
                    ELSE CreateImagesFrom(i + 1,
                                          [colorMemory EXCEPT !.view[i] = CreateHandle(@)],
                                          [depthMemory EXCEPT !.view[i] = CreateHandle(@)],
                                          avail - 2)

CreateImages(avail) == CreateImagesFrom(0, colorAttchs, depthAttchs, avail)

DestroyPassImageDef(def) ==
    [image |-> [i \in Frames |-> VK_NULL_HANDLE],
     view |-> [i \in Frames |-> IF def.image[i] # VK_NULL_HANDLE THEN VK_NULL_HANDLE ELSE def.view[i]],
     memory |-> [i \in Frames |-> IF def.image[i] # VK_NULL_HANDLE THEN VK_NULL_HANDLE ELSE def.memory[i]]]

\* the process stops inside an operation of the raster pass
RasterStop(how) ==
    /\ run' = how
    /\ colorAttchs' = NullPassImageDef
    /\ depthAttchs' = NullPassImageDef
    /\ rasterFramebuffers' = [f \in Frames |-> VK_NULL_HANDLE]
    /\ rasterSkyFramebuffers' = [f \in Frames |-> VK_NULL_HANDLE]
    /\ rasterWidth' = 0
    /\ rasterHeight' = 0
    /\ thrown' = "none"
    /\ finalBlit' = NoBlit

\* RasterPass::CreateFramebuffers(renderWidth, renderHeight, ...) on a device that
\* grants avail more dedicated allocations
CreateFramebuffers(renderWidth, renderHeight, avail) ==
    /\ Running
    /\ device = "exhausted" => avail = 0
    /\ device' = (IF avail < MaxAllocs THEN "exhausted" ELSE device)
    /\ LET images == CreateImages(avail)
       IN  CASE images.thrown = "assert" -> RasterStop("aborted")
             [] images.thrown = "RgException" ->
                  /\ colorAttchs' = images.color
                  /\ depthAttchs' = images.depth
                  /\ thrown' = "RgException"
                  /\ UNCHANGED <<rasterFramebuffers, rasterSkyFramebuffers, rasterWidth, rasterHeight,
                                 finalBlit, run>>
             [] OTHER ->
                  IF /\ run = "debug"
                     /\ \E i \in Frames : \/ rasterFramebuffers[i] # VK_NULL_HANDLE
                                           \/ rasterSkyFramebuffers[i] # VK_NULL_HANDLE
                  THEN RasterStop("aborted")
                  ELSE /\ colorAttchs' = images.color
                       /\ depthAttchs' = images.depth
                       /\ rasterFramebuffers' = [i \in Frames |-> CreateHandle(rasterFramebuffers[i])]
                       /\ rasterSkyFramebuffers' = [i \in Frames |-> CreateHandle(rasterSkyFramebuffers[i])]
                       /\ rasterWidth' = renderWidth
                       /\ rasterHeight' = renderHeight
                       /\ thrown' = "none"
                       /\ UNCHANGED <<finalBlit, run>>
    /\ UNCHANGED <<managerVars, shaderVars>>

\* RasterPass::DestroyFramebuffers, as the caller and as ~RasterPass call it
DestroyFramebuffers ==
    /\ Running
    /\ IF run = "debug" /\ \E i \in Frames : ~AllOrNone(colorAttchs, i) \/ ~AllOrNone(depthAttchs, i)
       THEN RasterStop("aborted")
       ELSE /\ colorAttchs' = DestroyPassImageDef(colorAttchs)
            /\ depthAttchs' = DestroyPassImageDef(depthAttchs)
            /\ rasterFramebuffers' = [i \in Frames |-> VK_NULL_HANDLE]
            /\ rasterSkyFramebuffers' = [i \in Frames |-> VK_NULL_HANDLE]
            /\ thrown' = "none"
            /\ UNCHANGED <<rasterWidth, rasterHeight, finalBlit, run>>
    /\ UNCHANGED <<managerVars, device, shaderVars>>

\* RasterPass::PrepareForFinal(cmd, frameIndex, ...): the blit it records; a
\* blit into a null image is undefined
PrepareForFinal(frameIndex) ==
    /\ Running
    /\ IF run = "debug" /\ ~(rasterWidth > 0 /\ rasterHeight > 0)
       THEN RasterStop("aborted")
       ELSE \/ /\ finalBlit' = [dst |-> colorAttchs.image[frameIndex], width |-> rasterWidth,
                                height |-> rasterHeight, frameIndex |-> frameIndex, recorded |-> TRUE]
               /\ thrown' = "none"
               /\ UNCHANGED <<colorAttchs, depthAttchs, rasterFramebuffers, rasterSkyFramebuffers,
                              rasterWidth, rasterHeight, run>>
            \/ /\ colorAttchs.image[frameIndex] = VK_NULL_HANDLE
               /\ RasterStop("crashed")
    /\ UNCHANGED <<managerVars, device, shaderVars>>

(* -------------------------------- Next -------------------------------- *)

\* Spec: static and dynamic geometry, the frame driver on one frame slot.
Next ==
    \/ ResetStaticGeometry
    \/ BeginStaticGeometry
    \/ \E info \in StaticUploads : AddStaticGeometry(info)
    \/ SubmitStaticGeometry
    \/ GpuExecute
    \/ WaitAndResetFence
    \/ \E f \in DrivenFrames : BeginDynamicGeometry(f)
    \/ \E f \in DrivenFrames : \E info \in DynamicUploads : AddDynamicGeometry(info, f)
    \/ \E f \in DrivenFrames : SubmitDynamicGeometry(f)
    \/ ResubmitStaticMovable
    \/ \E f \in DrivenFrames : TryBuildTLAS(f)

Spec == Init /\ [][Next]_vars

\* SpecFrames: dynamic geometry on every frame slot, in any interleaving.
NextFrames ==
    \/ \E f \in Frames : BeginDynamicGeometry(f)
    \/ \E f \in Frames : \E info \in DynamicUploadsFrames(f) : AddDynamicGeometry(info, f)
    \/ \E f \in Frames : SubmitDynamicGeometry(f)
    \/ \E f \in Frames : TryBuildTLAS(f)

SpecFrames == Init /\ [][NextFrames]_vars

\* SpecFaults: uploads of the wrong class and a device that runs out of memory, in a
\* release and in a debug build.
NextFaults ==
    \/ BeginStaticGeometry
    \/ \E info \in FaultStaticUploads : AddStaticGeometry(info)
    \/ SubmitStaticGeometry
    \/ GpuExecute
    \/ WaitAndResetFence
    \/ \E f \in DrivenFrames : BeginDynamicGeometry(f)
    \/ \E f \in DrivenFrames : \E info \in FaultDynamicUploads : AddDynamicGeometry(info, f)
    \/ \E f \in DrivenFrames : SubmitDynamicGeometry(f)
    \/ \E f \in DrivenFrames : TryBuildTLAS(f)
    \/ DeviceExhausted

SpecFaults == InitFaults /\ [][NextFaults]_vars

\* SpecFaultsFair: SpecFaults on a graphics queue that finishes every command
\* buffer submitted to it, and with a caller whose blocking wait returns
\* once the fence is signalled.
SpecFaultsFair ==
    /\ InitFaults
    /\ [][NextFaults]_vars
    /\ WF_vars(GpuExecute)
    /\ WF_vars(WaitAndResetFence)

\* SpecRecords: every operation that could touch a bottom-level record;
\* dynamic geometry on one frame slot, top-level builds on the other.
NextRecords ==
    \/ ResetStaticGeometry
    \/ BeginStaticGeometry
    \/ \E info \in MovableUploads : AddStaticGeometry(info)
    \/ SubmitStaticGeometry
    \/ GpuExecute
    \/ WaitAndResetFence
    \/ \E g \in FirstGeomIndices : \E t \in Transforms : UpdateStaticMovableTransform(g, t)
    \/ ResubmitStaticMovable
    \/ \E f \in DrivenFrames : BeginDynamicGeometry(f)
    \/ \E f \in DrivenFrames : \E info \in DynamicUploadsFrames(f) : AddDynamicGeometry(info, f)
    \/ \E f \in DrivenFrames : SubmitDynamicGeometry(f)
    \/ \E f \in Frames \ DrivenFrames : TryBuildTLAS(f)

SpecRecords == Init /\ [][NextRecords]_vars

\* SpecBuild: everything that records builds; dynamic geometry on one frame
\* slot, top-level builds on both.
NextBuild ==
    \/ BeginStaticGeometry
    \/ \E info \in BuildUploads : AddStaticGeometry(info)
    \/ SubmitStaticGeometry
    \/ GpuExecute
    \/ WaitAndResetFence
    \/ ResubmitStaticMovable
    \/ \E f \in DrivenFrames : BeginDynamicGeometry(f)
    \/ \E f \in DrivenFrames : \E info \in DynamicUploadsFrames(f) : AddDynamicGeometry(info, f)
    \/ \E f \in DrivenFrames : SubmitDynamicGeometry(f)
    \/ \E f \in Frames : TryBuildTLAS(f)

SpecBuild == Init /\ [][NextBuild]_vars

\* SpecMovable: static geometry with transform updates of the movable groups.
NextMovable ==
    \/ ResetStaticGeometry
    \/ BeginStaticGeometry
    \/ \E info \in MovableUploads : AddStaticGeometry(info)
    \/ SubmitStaticGeometry
    \/ GpuExecute
    \/ WaitAndResetFence
    \/ \E g \in StaticGeomIndices : \E t \in Transforms : UpdateStaticMovableTransform(g, t)
    \/ ResubmitStaticMovable
    \/ \E frameIndex \in DrivenFrames : TryBuildTLAS(frameIndex)

SpecMovable == Init /\ [][NextMovable]_vars

\* SpecCycles: collection cycles of the static collector and of one frame
\* slot's dynamic collector, with the builds and updates they lead to.
NextCycles ==
    \/ BeginStaticGeometry
    \/ \E info \in StaticUploads : AddStaticGeometry(info)
    \/ SubmitStaticGeometry
    \/ GpuExecute
    \/ WaitAndResetFence
    \/ ResubmitStaticMovable
    \/ \E f \in DrivenFrames : BeginDynamicGeometry(f)
    \/ \E f \in DrivenFrames : \E info \in DynamicUploads : AddDynamicGeometry(info, f)
    \/ \E f \in DrivenFrames : SubmitDynamicGeometry(f)

SpecCycles == Init /\ [][NextCycles]_vars

\* a bottom-level record after the first build of one geometry of its group
BuiltAS(filter) ==
    [NewAS(filter) EXCEPT !.as = CreateHandle(VK_NULL_HANDLE), !.size = GetBottomBuildSizes(1),
                          !.geoms = 1, !.sync = SyncOf(BuildBottomLevelCmds), !.baked = <<0>>]

\* the records of a list after one submit that uploaded one geometry for each
\* group in live
BuiltList(filters, live) ==
    [i \in DOMAIN filters |-> IF filters[i] \in live THEN BuiltAS(filters[i]) ELSE NewAS(filters[i])]

\* the collector after that submit
SubmittedCollector(filters, live) ==
    [collecting |-> FALSE,
     geoms |-> [x \in {filters[i] : i \in DOMAIN filters} |-> IF x \in live THEN 1 ELSE 0]]

\* what that submit enqueued
BuiltQueue(list) ==
    Flatten([i \in DOMAIN list |->
        IF list[i].as = VK_NULL_HANDLE THEN <<>>
        ELSE <<[as |-> list[i].as, filter |-> list[i].filter, geoms |-> 1, size |-> GetBottomBuildSizes(1),
                fastTrace |-> ~IsFastBuild(list[i].filter), queried |-> ~IsFastBuild(list[i].filter),
                update |-> FALSE]>>])

\* the manager after BeginStaticGeometry, one AddStaticGeometry for each group
\* of liveStatic, SubmitStaticGeometry, and the same for the dynamic groups of
\* liveDynamic on frame slot 0: every combination of live bottom-level
\* structures TryBuildTLAS can meet
InstancesState(liveStatic, liveDynamic) ==
    /\ collectorStatic = SubmittedCollector(StaticFilterSeq, liveStatic)
    /\ collectorDynamic = [f \in Frames |-> SubmittedCollector(DynamicFilterSeq, IF f = 0 THEN liveDynamic ELSE {})]
    /\ allStaticBlas = BuiltList(StaticFilterSeq, liveStatic)
    /\ allDynamicBlas = [f \in Frames |-> BuiltList(DynamicFilterSeq, IF f = 0 THEN liveDynamic ELSE {})]
    /\ tlas = [f \in Frames |-> NewTLAS]
    /\ instanceBuffers = [f \in Frames |-> <<>>]
    /\ uniform = [k \in UniformInts |-> Uninit]
    /\ asDescSets = [f \in Frames |-> VK_NULL_HANDLE]
    /\ staticCopyFence = "unsignaled"
    /\ gpuPending = {}
    /\ pc = "idle"
    /\ staticLog = (IF liveStatic = {} THEN <<>>
                    ELSE <<Step("EndCollecting", 0)>>
                         \o DestroySteps(BuiltList(StaticFilterSeq, {}))
                         \o StaticSubmitSteps(BuiltQueue(BuiltList(StaticFilterSeq, liveStatic)))
                         \o <<Step("WaitAndResetFence:staticCopyFence", 0)>>)
    /\ tlasRet = [f \in Frames |-> "none"]
    /\ fresh = TRUE
    /\ staticSkips = 0
    /\ transforms = [g \in StaticGeomIndices |-> 0]
    /\ builderQueue = <<>>
    /\ addRet = [static |-> IF liveStatic = {} THEN "none" ELSE "index",
                 dynamic |-> [f \in Frames |-> IF f = 0 /\ liveDynamic # {} THEN "index" ELSE "none"]]

InitInstances ==
    /\ \E liveStatic \in SUBSET {StaticFilterSeq[i] : i \in DOMAIN StaticFilterSeq} :
          \E liveDynamic \in SUBSET {DynamicFilterSeq[i] : i \in DOMAIN DynamicFilterSeq} :
             InstancesState(liveStatic, liveDynamic)
    /\ run = "release"
    /\ device = "ok"
    /\ ShaderIdle
    /\ RasterConstructed

\* SpecInstances: top-level builds for both frame slots over every
\* combination of live static and dynamic bottom-level structures.
NextInstances == \E f \in Frames : TryBuildTLAS(f)

SpecInstances == InitInstances /\ [][NextInstances]_vars

\* the two groups whose geometry the shader's buffers describe
ShaderStatic == {CF_STATIC_NON_MOVABLE + PT_OPAQUE}
ShaderDynamic == {CF_DYNAMIC + PT_OPAQUE}

\* the table TryBuildTLAS wrote for the previous frame of the same scene
PrevFrameTable ==
    LET a == AssembleInstances(BuiltList(DynamicFilterSeq, ShaderDynamic),
                               AssembleInstances(BuiltList(StaticFilterSeq, ShaderStatic), AssemblyStart))
    IN  CopyToUniform([k \in UniformInts |-> Uninit], a.instanceGeomInfoOffset, a.instanceCount)

\* previous-to-current tables: each previous geometry matched with itself or
\* with nothing
PrevToCurTables ==
    {[g \in ShaderGeomIndices |-> IF g \in matched THEN g ELSE UINT32_MAX] : matched \in SUBSET ShaderGeomIndices}

\* a static opaque and a dynamic opaque group were submitted; the buffers
\* the shaders read hold any geometry metadata for the two
InitShader ==
    /\ InstancesState(ShaderStatic, ShaderDynamic)
    /\ run = "release"
    /\ device = "ok"
    /\ RasterConstructed
    /\ shaderIn \in [geometryInstances : [ShaderGeomIndices -> ShGeometryInstances],
                      geomIndexPrevToCur : PrevToCurTables,
                      instanceGeomInfoOffsetPrev : {PrevFrameTable}]
    /\ shaderOut = NoCall

\* SpecShader: the top-level build of frame slot 0 and the shader functions
\* that look geometry up, on every input.
NextShader ==
    \/ TryBuildTLAS(0)
    \/ \E instanceID \in {0, 1} : \E instanceCustomIndex \in {0, INSTANCE_CUSTOM_INDEX_FLAG_DYNAMIC} :
          \E primitiveId \in PrimitiveIds : getTriangle(instanceID, instanceCustomIndex, 0, primitiveId)
    \/ \E globalGeometryIndex \in ShaderGeomIndices : \E instanceCustomIndex \in {0, INSTANCE_CUSTOM_INDEX_FLAG_DYNAMIC} :
          \E primitiveId \in PrimitiveIds : getOnlyPrevPositions(globalGeometryIndex, instanceCustomIndex, primitiveId)
    \/ \E prevInstanceID \in {0, 1} : getCurrentGeometryIndexByPrev(prevInstanceID, 0)

SpecShader == InitShader /\ [][NextShader]_vars

\* SpecRaster: the raster pass in a release and in a debug build, on a device
\* that may run out of memory during any CreateFramebuffers.
NextRaster ==
    \/ \E renderWidth \in RasterSizes : \E renderHeight \in RasterSizes : \E avail \in 0 .. MaxAllocs :
          CreateFramebuffers(renderWidth, renderHeight, avail)
    \/ DestroyFramebuffers
    \/ \E frameIndex \in Frames : PrepareForFinal(frameIndex)

SpecRaster == InitFaults /\ [][NextRaster]_vars

(* ----------------------------- properties ---------------------------- *)

\* whether the filter's group holds geometry now: in the static collector for
\* a static filter, in frame slot f's dynamic collector for a dynamic one
GroupHoldsGeometry(filter, f) ==
    IF IsDynamicFilter(filter)
    THEN collectorDynamic[f].geoms[filter] > 0
    ELSE collectorStatic.geoms[filter] > 0

\* the filter of the structure an instance refers to
InstanceFilter(instance) == instance.accelerationStructureReference[1]

\* the record of a filter among those TryBuildTLAS(f) walks
RecordOf(filter, f) ==
    LET all == allStaticBlas \o allDynamicBlas[f]
    IN  all[CHOOSE i \in DOMAIN all : all[i].filter = filter]

\* C1: every instance that TryBuildTLAS(f) assembles refers to a bottom-level
\* structure whose filter group holds geometry at the time of the TLAS build;
\* a group that is empty then produces no instance. Stated for the builds
\* that follow the submits (no collector is collecting), which the claim's
\* "any sequence of operations" includes.
C1_InstancesOnlyForNonEmptyGroups ==
    [][\A f \in Frames :
          (TryBuildTLAS(f) /\ tlasRet'[f] = "true"
             /\ ~collectorStatic.collecting /\ ~collectorDynamic[f].collecting)
          => \A i \in DOMAIN instanceBuffers'[f] :
                 GroupHoldsGeometry(InstanceFilter(instanceBuffers'[f][i]), f)]_vars

\* C2: for every instance assembled at slot s and every local geometry index g
\* of its structure, the shader lookup getGeometryIndex(s, g) on the table
\* TryBuildTLAS copied into the uniform is the index the geometry was written
\* under: the base offset of the filter's group plus g.
C2_LookupGivesGeometryIndex ==
    [][\A f \in Frames :
          (TryBuildTLAS(f) /\ tlasRet'[f] = "true")
          => \A i \in DOMAIN instanceBuffers'[f] :
                 LET filter == InstanceFilter(instanceBuffers'[f][i])
                 IN  \A g \in 0 .. (RecordOf(filter, f).geoms - 1) :
                         getGeometryIndex(uniform', i - 1, g) = {GeomInfoIndex(filter, g)}]_vars

\* C3: GetTLASDescSet(f) is the null descriptor unless the latest
\* TryBuildTLAS(f) built a TLAS: when it returned false, or was never called,
\* the descriptor is null, also when an earlier frame built a TLAS in the slot.
C3_NullDescriptorUnlessBuilt ==
    \A f \in Frames : tlasRet[f] # "true" => GetTLASDescSet(f) = VK_NULL_HANDLE

\* the filters TryBuildTLAS(f) has a record for, and those whose group holds geometry
RecordFilters == {AllFilters[k] : k \in DOMAIN AllFilters}
NonEmptyGroups(f) == {filter \in RecordFilters : GroupHoldsGeometry(filter, f)}

\* the live records of a filter, and the instances of a buffer that refer to a record
LiveRecords(filter, f) ==
    LET all == allStaticBlas \o allDynamicBlas[f]
    IN  {i \in DOMAIN all : all[i].filter = filter /\ all[i].as # VK_NULL_HANDLE}

InstancesOf(buffer, as) ==
    {i \in DOMAIN buffer : buffer[i].accelerationStructureReference = GetASAddress(as)}

\* the instance slots of a buffer whose table entry the lookup reads back as
\* the base offset of the instance's group
ValidTableEntries(u, buffer) ==
    {i \in DOMAIN buffer : getGeometryIndex(u, i - 1, 0) = {GeomInfoIndex(InstanceFilter(buffer[i]), 0)}}

\* a full submit cycle ends in this step: both collectors were submitted and
\* TryBuildTLAS(f) runs
EndsSubmitCycle(f) ==
    TryBuildTLAS(f) /\ ~collectorStatic.collecting /\ ~collectorDynamic[f].collecting

\* C4: after a full submit cycle every non-empty filter group has exactly one
\* bottom-level structure, referenced by exactly one instance of the frame
\* slot's TLAS; on a fresh manager with k non-empty static and m non-empty
\* dynamic groups the TLAS has exactly k+m instances and k+m valid
\* offset-table entries.
C4_OneStructureAndInstancePerGroup ==
    [][\A f \in Frames :
          EndsSubmitCycle(f)
          => /\ \A filter \in NonEmptyGroups(f) :
                   /\ Cardinality(LiveRecords(filter, f)) = 1
                   /\ Cardinality(InstancesOf(instanceBuffers'[f], RecordOf(filter, f))) = 1
             /\ fresh => /\ Len(instanceBuffers'[f]) = Cardinality(NonEmptyGroups(f))
                         /\ tlas'[f].primitiveCount = Cardinality(NonEmptyGroups(f))
                         /\ Cardinality(ValidTableEntries(uniform', instanceBuffers'[f]))
                               = Cardinality(NonEmptyGroups(f))]_vars

\* what TryBuildTLAS(f) assembles in the current state
Assembled(f) == AssembleInstances(allDynamicBlas[f], AssembleInstances(allStaticBlas, AssemblyStart))

\* the table entries the CPU side wrote
WrittenTableEntries(u) == {k \in DOMAIN u : u[k] # Uninit}

SkipPath == SubmitStaticGeometry /\ AreGeometriesEmpty(collectorStatic, staticFlags)

\* a log without a command sequence: nothing started, enqueued, flushed or submitted
NoBuildSteps(log) == \A i \in DOMAIN log : log[i].step \in {"EndCollecting", "DestroyAS"}

\* C6 as stated: SubmitStaticGeometry without static data enqueues, flushes
\* and submits nothing and leaves every static BLAS, dynamic BLAS and TLAS
\* that existed before the call untouched.
C6_SkipPathTouchesNothing ==
    [][SkipPath
       => /\ NoBuildSteps(staticLog')
          /\ UNCHANGED <<pc, gpuPending, staticCopyFence>>
          /\ UNCHANGED <<allStaticBlas, allDynamicBlas, tlas>>]_vars

\* C6, amended: two SubmitStaticGeometry calls without static data and without
\* an AddStaticGeometry between them both take the skip path: nothing is
\* enqueued, flushed or submitted and the dynamic BLAS and the TLAS are
\* untouched; the static BLAS that existed are destroyed by the first call,
\* and the second call changes no structure.
C6_SkipPathDestroysStaticOnly ==
    [][/\ (SubmitStaticGeometry /\ staticSkips >= 1) => SkipPath
       /\ SkipPath
          => /\ NoBuildSteps(staticLog')
             /\ UNCHANGED <<pc, gpuPending, staticCopyFence>>
             /\ UNCHANGED <<allDynamicBlas, tlas, instanceBuffers, asDescSets>>
             /\ \A i \in DOMAIN allStaticBlas' : allStaticBlas'[i].as = VK_NULL_HANDLE
             /\ staticSkips >= 1 => allStaticBlas' = allStaticBlas]_vars

\* after the second call: the TLAS still has the three instances it was built
\* with while the static BLAS lived, i.e. before the first of the two calls
C6_Witness ==
    /\ staticSkips = 2
    /\ NoBuildSteps(staticLog) /\ staticLog # <<>>
    /\ ~AnyLive(allStaticBlas)
    /\ AnyLive(allDynamicBlas[0])
    /\ tlas[0].as # VK_NULL_HANDLE
    /\ tlas[0].primitiveCount = 3

StaticGroupNonEmpty(filter) == collectorStatic.geoms[filter] > 0

\* the steps C7 lists for a SubmitStaticGeometry call up to its fence wait
ExpectedStaticSteps ==
    <<Step("EndCollecting", 0)>>
    \o [i \in DOMAIN StaticFilterSeq |-> Step("DestroyAS", StaticFilterSeq[i])]
    \o (IF \A i \in DOMAIN StaticFilterSeq : ~StaticGroupNonEmpty(StaticFilterSeq[i])
        THEN <<>>
        ELSE <<Step("StartGraphicsCmd", 0), Step("CopyFromStaging:barrier", 0)>>
             \o [i \in DOMAIN SelectSeq(StaticFilterSeq, StaticGroupNonEmpty) |->
                    Step("AddBLAS:build", SelectSeq(StaticFilterSeq, StaticGroupNonEmpty)[i])]
             \o <<Step("vkCmdBuildAccelerationStructuresKHR:bottom", 0),
                  Step("ASBuildMemoryBarrier", 0),
                  Step("Submit:staticCopyFence", 0)>>)

\* C7: SubmitStaticGeometry first destroys every static bottom-level
\* structure; without static data it then returns (no command sequence, no
\* enqueue, no submit, no fence wait); otherwise it records the staging copy
\* with barrier, enqueues one full build for each and only each non-empty
\* static group, flushes them in one batch, submits, and waits, in that order.
C7_SubmitStaticOrder ==
    [][/\ SubmitStaticGeometry
          => /\ staticLog' = ExpectedStaticSteps
             /\ IF AreGeometriesEmpty(collectorStatic, staticFlags)
                THEN /\ ~AnyLive(allStaticBlas')
                     /\ UNCHANGED <<pc, gpuPending, staticCopyFence>>
                ELSE /\ pc' = "waitFence"
                     /\ \A i \in DOMAIN allStaticBlas' :
                           /\ (allStaticBlas'[i].as # VK_NULL_HANDLE) = StaticGroupNonEmpty(allStaticBlas'[i].filter)
                           /\ allStaticBlas'[i].geoms = collectorStatic.geoms[allStaticBlas'[i].filter]
                     /\ gpuPending' = {x \in DOMAIN collectorStatic.geoms : StaticGroupNonEmpty(x)}
       /\ WaitAndResetFence
          => /\ staticLog[Len(staticLog)] = Step("Submit:staticCopyFence", 0)
             /\ staticLog' = Append(staticLog, Step("WaitAndResetFence:staticCopyFence", 0))]_vars

\* a call with static data in two groups has returned
C7_Witness ==
    /\ pc = "idle"
    /\ Len(staticLog) = Len(StaticFilterSeq) + 9
    /\ staticLog[Len(staticLog)] = Step("WaitAndResetFence:staticCopyFence", 0)
    /\ Cardinality({i \in DOMAIN allStaticBlas : allStaticBlas[i].as # VK_NULL_HANDLE}) = 2

\* C8: when SubmitStaticGeometry has returned after issuing builds the GPU
\* has completed every static build of the submission, so no later call sees
\* an unfinished static structure, and the fence is unsignalled again.
C8_StaticBuildsCompleteOnReturn ==
    pc = "idle" => (gpuPending = {} /\ staticCopyFence = "unsignaled")

\* the call has returned after a submission with builds
C8_Witness ==
    /\ pc = "idle"
    /\ staticLog # <<>>
    /\ staticLog[Len(staticLog)] = Step("WaitAndResetFence:staticCopyFence", 0)
    /\ AnyLive(allStaticBlas)
    /\ gpuPending = {}
    /\ staticCopyFence = "unsignaled"

\* C9: every bottom-level build whose structure a TLAS instance refers to is
\* followed by a barrier before the TLAS build command, and the TLAS build is
\* followed by a barrier before later ray dispatch.
C9_BuildsBarrierOrdered ==
    /\ \A i \in DOMAIN allStaticBlas :
          allStaticBlas[i].as # VK_NULL_HANDLE => allStaticBlas[i].sync = "ordered"
    /\ \A f \in Frames :
          /\ \A i \in DOMAIN allDynamicBlas[f] :
                allDynamicBlas[f][i].as # VK_NULL_HANDLE => allDynamicBlas[f][i].sync = "ordered"
          /\ tlas[f].as # VK_NULL_HANDLE => (tlas[f].inputsOrdered /\ tlas[f].sync = "ordered")

\* a TLAS built over a static, a movable and a dynamic structure
C9_Witness ==
    /\ tlasRet[0] = "true"
    /\ tlas[0].primitiveCount = 3
    /\ tlas[0].sync = "ordered"
    /\ \E i \in DOMAIN allStaticBlas :
          HasBit(allStaticBlas[i].filter, CF_STATIC_MOVABLE) /\ allStaticBlas[i].sync = "ordered"
    /\ \E i \in DOMAIN allDynamicBlas[0] : allDynamicBlas[0][i].sync = "ordered"

\* what belongs to frame slot g
SlotState(g) == <<collectorDynamic[g], allDynamicBlas[g], tlas[g], instanceBuffers[g]>>

\* C10: the dynamic-geometry operations and TryBuildTLAS of a frame slot leave
\* the other slot's dynamic collector, dynamic bottom-level records, TLAS
\* record and instance buffer unchanged, in any interleaving.
C10_FrameSlotIsolation ==
    [][\A f \in Frames :
          (\/ BeginDynamicGeometry(f)
           \/ \E info \in DynamicUploadsFrames(f) : AddDynamicGeometry(info, f)
           \/ SubmitDynamicGeometry(f)
           \/ TryBuildTLAS(f))
          => \A g \in Frames \ {f} : SlotState(g)' = SlotState(g)]_vars

\* disjoint geometry went to the two slots and is read back from both
C10_Witness ==
    /\ \A f \in Frames : ~collectorDynamic[f].collecting /\ tlasRet[f] = "true"
    /\ collectorDynamic[0].geoms = [x \in DOMAIN collectorDynamic[0].geoms |-> IF x = CF_DYNAMIC + PT_OPAQUE THEN 1 ELSE 0]
    /\ collectorDynamic[1].geoms = [x \in DOMAIN collectorDynamic[1].geoms |-> IF x = CF_DYNAMIC + PT_BLEND_ADDITIVE THEN 1 ELSE 0]
    /\ \A f \in Frames : \A i \in DOMAIN allDynamicBlas[f] :
          allDynamicBlas[f][i].geoms = collectorDynamic[f].geoms[allDynamicBlas[f][i].filter]
    /\ Len(instanceBuffers[0]) = 1 /\ InstanceFilter(instanceBuffers[0][1]) = CF_DYNAMIC + PT_OPAQUE
    /\ Len(instanceBuffers[1]) = 1 /\ InstanceFilter(instanceBuffers[1][1]) = CF_DYNAMIC + PT_BLEND_ADDITIVE

(* ------------------- movable updates, queue, results ------------------ *)

\* a call of UpdateStaticMovableTransform or of ResubmitStaticMovable
MovableStep ==
    \/ \E g \in StaticGeomIndices : \E t \in Transforms : UpdateStaticMovableTransform(g, t)
    \/ ResubmitStaticMovable

IsMovableRecord(i) == HasBit(allStaticBlas[i].filter, CF_STATIC_MOVABLE)

\* C11: a call of UpdateStaticMovableTransform or ResubmitStaticMovable that the
\* process survives leaves every movable bottom-level record with the handle
\* and the backing buffer it had, and whatever ResubmitStaticMovable enqueues
\* is an update of the handle the record already holds.
C11_MovableUpdatedInPlace ==
    [][ (MovableStep /\ run' = run)
        => /\ \A i \in DOMAIN allStaticBlas :
                 IsMovableRecord(i)
                 => /\ allStaticBlas'[i].as = allStaticBlas[i].as
                    /\ allStaticBlas'[i].size = allStaticBlas[i].size
           /\ \A k \in DOMAIN MovableQueue :
                 /\ MovableQueue[k].update
                 /\ \E i \in DOMAIN allStaticBlas :
                       /\ allStaticBlas[i].filter = MovableQueue[k].filter
                       /\ allStaticBlas[i].as = MovableQueue[k].as ]_vars

\* a live movable structure whose last update read a transform set after upload
C11_Witness ==
    \E i \in DOMAIN allStaticBlas :
        /\ IsMovableRecord(i)
        /\ allStaticBlas[i].as # VK_NULL_HANDLE
        /\ allStaticBlas[i].sync = "ordered"
        /\ allStaticBlas[i].updated
        /\ \E l \in DOMAIN allStaticBlas[i].baked : allStaticBlas[i].baked[l] = 1

\* the static-movable groups that hold geometry
NonEmptyMovableGroups ==
    {filter \in DOMAIN collectorStatic.geoms :
        HasBit(filter, CF_STATIC_MOVABLE) /\ GetASGeometries(collectorStatic, filter) > 0}

\* C12: a call of ResubmitStaticMovable enqueues one update (never a build) for
\* each non-empty static-movable group and for nothing else, so only records
\* of those groups are written and only by an update; dynamic records are
\* untouched; and with no movable geometry the call records nothing and
\* changes nothing.
C12_ResubmitUpdatesMovableOnly ==
    [][ (ResubmitStaticMovable /\ run' = run)
        => /\ FilterSet(MovableQueue) = NonEmptyMovableGroups
           /\ Len(MovableQueue) = Cardinality(NonEmptyMovableGroups)
           /\ \A k \in DOMAIN MovableQueue : MovableQueue[k].update
           /\ \A i \in DOMAIN allStaticBlas :
                 /\ allStaticBlas'[i] # allStaticBlas[i]
                    => allStaticBlas[i].filter \in NonEmptyMovableGroups /\ allStaticBlas'[i].updated
                 /\ (allStaticBlas[i].filter \in NonEmptyMovableGroups /\ allStaticBlas[i].as # VK_NULL_HANDLE)
                    => allStaticBlas'[i].updated
           /\ allDynamicBlas' = allDynamicBlas
           /\ (NonEmptyMovableGroups = {}) => (ResubmitSteps = <<>> /\ UNCHANGED vars)
           /\ (NonEmptyMovableGroups # {})
              => \E j \in DOMAIN ResubmitSteps : ResubmitSteps[j].step = "ASBuildMemoryBarrier" ]_vars

\* a movable structure written by an update next to a live non-movable static
\* structure that still holds its build
C12_Witness ==
    /\ \E i \in DOMAIN allStaticBlas :
          IsMovableRecord(i) /\ allStaticBlas[i].as # VK_NULL_HANDLE /\ allStaticBlas[i].updated
    /\ \E i \in DOMAIN allStaticBlas :
          /\ HasBit(allStaticBlas[i].filter, CF_STATIC_NON_MOVABLE)
          /\ allStaticBlas[i].as # VK_NULL_HANDLE
          /\ allStaticBlas[i].sync = "ordered"
          /\ ~allStaticBlas[i].updated

\* C14: between operations the builder's queue is empty: every operation
\* that enqueues finds it empty and flushes what it enqueued before it returns.
C14_BuilderQueueEmpty == IsEmpty(builderQueue)

\* static, movable and dynamic builds and a top-level build have all been
\* enqueued and flushed
C14_Witness ==
    /\ IsEmpty(builderQueue)
    /\ \E i \in DOMAIN allStaticBlas :
          HasBit(allStaticBlas[i].filter, CF_STATIC_NON_MOVABLE) /\ allStaticBlas[i].sync = "ordered"
    /\ \E i \in DOMAIN allStaticBlas : allStaticBlas[i].updated
    /\ \E f \in Frames :
          /\ \E i \in DOMAIN allDynamicBlas[f] : allDynamicBlas[f][i].sync = "ordered"
          /\ tlas[f].primitiveCount = 3

\* the records TryBuildTLAS(f) walks that hold a valid handle
LiveInputs(f) == SelectSeq(allStaticBlas \o allDynamicBlas[f], IsLive)

\* C15: TryBuildTLAS(f) returns true exactly when a static record or a dynamic
\* record of slot f holds a valid handle; then the TLAS of slot f exists and is
\* built with as many primitives as there are such records; when it returns
\* false nothing but the return value changes and the process goes on.
C15_TryBuildTLASResult ==
    [][ \A f \in Frames :
          TryBuildTLAS(f)
          => /\ tlasRet'[f] \in {"true", "false"}
             /\ (tlasRet'[f] = "true") <=> (Len(LiveInputs(f)) > 0)
             /\ (tlasRet'[f] = "true")
                => /\ tlas'[f].as # VK_NULL_HANDLE
                   /\ tlas'[f].primitiveCount = Len(LiveInputs(f))
                   /\ Len(instanceBuffers'[f]) >= Len(LiveInputs(f))
             /\ (tlasRet'[f] = "false")
                => /\ run' = run
                   /\ UNCHANGED <<collectorStatic, collectorDynamic, allStaticBlas, allDynamicBlas, tlas,
                                   instanceBuffers, uniform, asDescSets, staticCopyFence, gpuPending, pc,
                                   builderQueue>> ]_vars

\* slot 0 was built from a static and a dynamic structure, and the call for
\* slot 1 returned false
C15_Witness ==
    /\ tlasRet[0] = "true"
    /\ tlas[0].primitiveCount = 2
    /\ tlasRet[1] = "false"

\* a command sequence without a queue submission and without a fence wait
RecordsOnly(steps) ==
    \A j \in DOMAIN steps :
        steps[j].step \notin {"Submit:staticCopyFence", "WaitAndResetFence:staticCopyFence"}

\* the call returned to the caller with nothing handed to the queue and no
\* fence touched
ReturnsWithoutSubmit ==
    /\ pc' = "idle"
    /\ gpuPending' = gpuPending
    /\ staticCopyFence' = staticCopyFence

\* C16: a call of SubmitDynamicGeometry, ResubmitStaticMovable or TryBuildTLAS
\* only records commands: what it records holds no queue submission and no
\* fence wait, and the call returns with the queue and the fence as they were.
C16_RecordOnlyOperations ==
    [][ /\ \A f \in Frames :
              SubmitDynamicGeometry(f)
              => RecordsOnly(DynamicSubmitSteps(DynamicQueue(f))) /\ ReturnsWithoutSubmit
        /\ (ResubmitStaticMovable /\ run' = run)
           => RecordsOnly(ResubmitSteps) /\ ReturnsWithoutSubmit
        /\ \A f \in Frames :
              TryBuildTLAS(f) => RecordsOnly(TopLevelCmds) /\ ReturnsWithoutSubmit ]_vars

\* dynamic builds, a movable update and a top-level build were recorded and
\* the caller is not waiting for anything
C16_Witness ==
    /\ pc = "idle"
    /\ gpuPending = {}
    /\ staticCopyFence = "unsignaled"
    /\ \E i \in DOMAIN allDynamicBlas[0] : allDynamicBlas[0][i].as # VK_NULL_HANDLE
    /\ \E i \in DOMAIN allStaticBlas : allStaticBlas[i].updated
    /\ tlasRet[0] = "true"
    /\ tlasRet[1] = "true"

\* nothing the manager holds for geometry was touched
NothingAppended ==
    UNCHANGED <<collectorStatic, collectorDynamic, allStaticBlas, allDynamicBlas, builderQueue, transforms>>

C18_CreateFailureIsFatal ==
    [][ /\ (SubmitStaticGeometry /\ StaticCreateFailed) => run' = "aborted"
        /\ \A f \in Frames : (SubmitDynamicGeometry(f) /\ DynamicCreateFailed(f)) => run' = "aborted"
        /\ \A f \in Frames : (TryBuildTLAS(f) /\ TlasCreateFailed(f)) => run' = "aborted" ]_vars

\* a call of one of the operations that are not meant to touch static records
OtherOperation ==
    \/ ResetStaticGeometry
    \/ BeginStaticGeometry
    \/ \E info \in MovableUploads : AddStaticGeometry(info)
    \/ \E g \in StaticGeomIndices : \E t \in Transforms : UpdateStaticMovableTransform(g, t)
    \/ \E f \in Frames : BeginDynamicGeometry(f)
    \/ \E f \in Frames : \E info \in DynamicUploadsFrames(f) : AddDynamicGeometry(info, f)
    \/ \E f \in Frames : SubmitDynamicGeometry(f)
    \/ \E f \in Frames : TryBuildTLAS(f)

\* C20: the static records change only in SubmitStaticGeometry and in
\* ResubmitStaticMovable; ResubmitStaticMovable leaves the non-movable ones as
\* they were; and no other operation changes any static record.
C20_StaticRecordsWrittenBySubmitOnly ==
    [][ /\ OtherOperation => allStaticBlas' = allStaticBlas
        /\ (ResubmitStaticMovable /\ run' = run)
           => \A i \in DOMAIN allStaticBlas :
                 HasBit(allStaticBlas[i].filter, CF_STATIC_NON_MOVABLE)
                 => allStaticBlas'[i] = allStaticBlas[i]
        /\ (allStaticBlas' # allStaticBlas) => (SubmitStaticGeometry \/ ResubmitStaticMovable) ]_vars

\* a built non-movable static structure is live while new static geometry was
\* begun, added and given a transform, dynamic geometry was built, a movable
\* structure was updated and a top-level structure was built
C20_Witness ==
    /\ \E i \in DOMAIN allStaticBlas :
          /\ HasBit(allStaticBlas[i].filter, CF_STATIC_NON_MOVABLE)
          /\ allStaticBlas[i].as # VK_NULL_HANDLE
          /\ allStaticBlas[i].geoms > 0
    /\ \E i \in DOMAIN allStaticBlas : allStaticBlas[i].updated
    /\ collectorStatic.collecting
    /\ addRet.static = "index"
    /\ \E g \in StaticGeomIndices : transforms[g] = 1
    /\ \E i \in DOMAIN allDynamicBlas[0] : allDynamicBlas[0][i].as # VK_NULL_HANDLE
    /\ tlasRet[1] = "true"

\* what a setup or update loop enqueued fits the buffers of the records it left
Fits(loop) ==
    \A i \in DOMAIN loop : \A k \in DOMAIN loop[i].queued :
        /\ IsInitted(loop[i].as)
        /\ loop[i].as.size >= loop[i].queued[k].size
        /\ loop[i].as.as = loop[i].queued[k].as

\* C13: whatever SubmitStaticGeometry, SubmitDynamicGeometry and
\* ResubmitStaticMovable enqueue is enqueued for a record whose backing buffer
\* exists and is at least as large as the build size of the group's geometry.
C13_EnqueuedFitsBuffer ==
    [][ /\ (SubmitStaticGeometry /\ ~AreGeometriesEmpty(collectorStatic, staticFlags)) => Fits(StaticSetup)
        /\ \A f \in Frames :
              (SubmitDynamicGeometry(f) /\ ~AreGeometriesEmpty(collectorDynamic[f], CF_DYNAMIC))
              => Fits(DynamicSetup(f))
        /\ (ResubmitStaticMovable /\ ~AreGeometriesEmpty(collectorStatic, CF_STATIC_MOVABLE))
           => Fits(MovableUpdates) ]_vars

(* ------------------- collection cycles and rebuilds ------------------- *)

\* a collector that holds nothing
HoldsNothing(col) == \A filter \in DOMAIN col.geoms : col.geoms[filter] = 0

\* a collector after one upload more than col holds, and nothing else changed
OneAdded(col, after, info) ==
    \A filter \in DOMAIN col.geoms :
        after.geoms[filter] = col.geoms[filter] + (IF filter = GetFilter(info) THEN 1 ELSE 0)

\* C21: BeginStaticGeometry and BeginDynamicGeometry(f) leave their collector
\* empty, every accepted Add puts exactly one geometry into its group, and
\* the structures SubmitStaticGeometry and SubmitDynamicGeometry(f) build hold
\* exactly what the collector holds then: what was added since the last Begin.
C21_BuildsHoldCurrentCycleOnly ==
    [][ /\ BeginStaticGeometry => HoldsNothing(collectorStatic') /\ collectorStatic'.collecting
        /\ \A f \in Frames :
              BeginDynamicGeometry(f) => HoldsNothing(collectorDynamic'[f]) /\ collectorDynamic'[f].collecting
        /\ \A info \in StaticUploads :
              AddStaticGeometry(info) => OneAdded(collectorStatic, collectorStatic', info)
        /\ \A f \in Frames : \A info \in DynamicUploads :
              AddDynamicGeometry(info, f) => OneAdded(collectorDynamic[f], collectorDynamic'[f], info)
        /\ SubmitStaticGeometry
           => \A i \in DOMAIN allStaticBlas :
                 /\ allStaticBlas'[i].geoms = collectorStatic.geoms[allStaticBlas[i].filter]
                 /\ (allStaticBlas'[i].as # VK_NULL_HANDLE) <=> (collectorStatic.geoms[allStaticBlas[i].filter] > 0)
        /\ \A f \in Frames :
              SubmitDynamicGeometry(f)
              => \A i \in DOMAIN allDynamicBlas[f] :
                    collectorDynamic[f].geoms[allDynamicBlas[f][i].filter] > 0
                    => /\ allDynamicBlas'[f][i].geoms = collectorDynamic[f].geoms[allDynamicBlas[f][i].filter]
                       /\ allDynamicBlas'[f][i].as # VK_NULL_HANDLE ]_vars

\* a second cycle was submitted: the collectors were reset while structures
\* built from them were live, and the builds of the new cycle are in place
C21_Witness ==
    /\ ~fresh
    /\ pc = "idle"
    /\ ~collectorStatic.collecting
    /\ collectorStatic.geoms[CF_STATIC_MOVABLE + PT_ALPHA_TESTED] = 1
    /\ collectorStatic.geoms[CF_STATIC_NON_MOVABLE + PT_OPAQUE] = 0
    /\ \E i \in DOMAIN allStaticBlas :
          /\ allStaticBlas[i].filter = CF_STATIC_MOVABLE + PT_ALPHA_TESTED
          /\ allStaticBlas[i].geoms = 1
          /\ allStaticBlas[i].sync = "ordered"
    /\ \A i \in DOMAIN allStaticBlas :
          allStaticBlas[i].filter = CF_STATIC_NON_MOVABLE + PT_OPAQUE => allStaticBlas[i].as = VK_NULL_HANDLE
    /\ ~collectorDynamic[0].collecting
    /\ \E i \in DOMAIN allDynamicBlas[0] : allDynamicBlas[0][i].geoms = 1

\* a call of one of the per-frame dynamic operations
DynamicOperation ==
    \E f \in Frames :
        \/ BeginDynamicGeometry(f)
        \/ \E info \in DynamicUploads : AddDynamicGeometry(info, f)
        \/ SubmitDynamicGeometry(f)

\* C22: every SubmitDynamicGeometry(f) gives each dynamic group of slot f it
\* builds a newly created structure, different from the one the record held
\* before the call, and the per-frame dynamic operations leave the static
\* records as they are.
C22_DynamicRecreatedEveryFrame ==
    [][ /\ \A f \in Frames :
              SubmitDynamicGeometry(f)
              => \A i \in DOMAIN allDynamicBlas[f] :
                    collectorDynamic[f].geoms[allDynamicBlas[f][i].filter] > 0
                    => /\ allDynamicBlas'[f][i].as # VK_NULL_HANDLE
                       /\ allDynamicBlas'[f][i].as # allDynamicBlas[f][i].as
        /\ DynamicOperation => allStaticBlas' = allStaticBlas ]_vars

\* in a command sequence, every bottom-level build command comes after a
\* copy from staging that was recorded with its barrier
CopyOrderedBeforeBuild(steps) ==
    \A i \in DOMAIN steps :
        steps[i].step = "vkCmdBuildAccelerationStructuresKHR:bottom"
        => \E j \in DOMAIN steps : j < i /\ steps[j].step = "CopyFromStaging:barrier"

\* C23: in every SubmitDynamicGeometry(f) that issues a build, the copy from
\* staging is recorded before the build command and a barrier orders it
\* before the build.
C23_DynamicCopyOrderedBeforeBuild ==
    [][ \A f \in Frames :
          (SubmitDynamicGeometry(f) /\ ~AreGeometriesEmpty(collectorDynamic[f], CF_DYNAMIC))
          => CopyOrderedBeforeBuild(DynamicSubmitSteps(DynamicQueue(f))) ]_vars

(* ------------------------ top-level assembly -------------------------- *)

\* the filter of the bottom-level structure an instance refers to
InstanceFilterOf(instance) == instance.accelerationStructureReference[1]

\* C24: after a TryBuildTLAS(f) that built, the instance buffer of slot f
\* holds as many instances as the build has primitives, and for every slot i
\* below that count the table entry i (the i-th ivec4, written at int i * 4)
\* is the geometry-metadata base offset of the group of the structure that
\* instance i refers to.
C24_TableMatchesInstances ==
    [][ \A f \in Frames :
          (TryBuildTLAS(f) /\ tlasRet'[f] = "true")
          => /\ Len(instanceBuffers'[f]) = tlas'[f].primitiveCount
             /\ \A i \in 0 .. (tlas'[f].primitiveCount - 1) :
                   /\ uniform'[i * 4] # Uninit
                   /\ uniform'[i * 4] = GeomInfoIndex(InstanceFilterOf(instanceBuffers'[f][i + 1]), 0) ]_vars

\* a build over every group: twelve instances, and the entry of the last one
\* is the base offset of the last dynamic group
C24_Witness ==
    /\ tlasRet[0] = "true"
    /\ Len(instanceBuffers[0]) = 12
    /\ InstanceFilterOf(instanceBuffers[0][12]) = CF_DYNAMIC + PT_BLEND_UNDER
    /\ uniform[11 * 4] = 11 * MAX_BOTTOM_LEVEL_GEOMETRIES_COUNT

\* the filters of the records with a valid handle that TryBuildTLAS(f) walks
LiveFilters(f) ==
    {allStaticBlas[i].filter : i \in {j \in DOMAIN allStaticBlas : IsLive(allStaticBlas[j])}}
    \cup {allDynamicBlas[f][i].filter : i \in {j \in DOMAIN allDynamicBlas[f] : IsLive(allDynamicBlas[f][j])}}

\* the groups of a set in the order the constructor creates their records:
\* the static ones, then the dynamic ones
InRecordOrder(live) ==
    LET IsIn(filter) == filter \in live
    IN  SelectSeq(StaticFilterSeq \o DynamicFilterSeq, IsIn)

\* C25: the instances TryBuildTLAS(f) writes are the live structures in the
\* fixed order of the records, a function of the set of valid handles alone,
\* and every static instance has a lower slot than every dynamic one.
C25_InstanceOrderFixed ==
    [][ \A f \in Frames :
          (TryBuildTLAS(f) /\ tlasRet'[f] = "true")
          => /\ [i \in DOMAIN instanceBuffers'[f] |-> InstanceFilterOf(instanceBuffers'[f][i])]
                = InRecordOrder(LiveFilters(f))
             /\ \A i, j \in DOMAIN instanceBuffers'[f] :
                   (/\ ~HasBit(InstanceFilterOf(instanceBuffers'[f][i]), CF_DYNAMIC)
                    /\ HasBit(InstanceFilterOf(instanceBuffers'[f][j]), CF_DYNAMIC))
                   => i < j ]_vars

\* a build from two static and two dynamic structures
C25_Witness ==
    /\ tlasRet[0] = "true"
    /\ Len(instanceBuffers[0]) = 4
    /\ InstanceFilterOf(instanceBuffers[0][1]) = CF_STATIC_NON_MOVABLE + PT_ALPHA_TESTED
    /\ InstanceFilterOf(instanceBuffers[0][2]) = CF_STATIC_MOVABLE + PT_OPAQUE
    /\ InstanceFilterOf(instanceBuffers[0][3]) = CF_DYNAMIC + PT_OPAQUE
    /\ InstanceFilterOf(instanceBuffers[0][4]) = CF_DYNAMIC + PT_BLEND_UNDER

\* what the instance of a structure of a filter has to carry, from the
\* filter's change-frequency class and pass-through class
ExpectedInstanceFields(filter) ==
    [instanceCustomIndex |-> IF CfOf(filter) = CF_DYNAMIC THEN INSTANCE_CUSTOM_INDEX_FLAG_DYNAMIC ELSE 0,
     mask |-> IF PtOf(filter) \in {PT_BLEND_ADDITIVE, PT_BLEND_UNDER}
              THEN "~INSTANCE_MASK_HAS_SHADOWS" ELSE "INSTANCE_MASK_HAS_SHADOWS",
     instanceShaderBindingTableRecordOffset |->
         CASE PtOf(filter) = PT_OPAQUE -> "SBT_INDEX_HITGROUP_FULLY_OPAQUE"
           [] PtOf(filter) = PT_ALPHA_TESTED -> "SBT_INDEX_HITGROUP_ALPHA_TESTED"
           [] PtOf(filter) = PT_BLEND_ADDITIVE -> "SBT_INDEX_HITGROUP_BLEND_ADDITIVE"
           [] PtOf(filter) = PT_BLEND_UNDER -> "SBT_INDEX_HITGROUP_BLEND_UNDER",
     flags |-> {IF PtOf(filter) = PT_OPAQUE THEN "FORCE_OPAQUE" ELSE "FORCE_NO_OPAQUE",
                "TRIANGLE_FACING_CULL_DISABLE"}]

\* C26: for every filter, the instance SetupTLASInstance sets up carries the
\* dynamic custom-index bit exactly for a dynamic filter, the mask without
\* shadows exactly for blend-additive and blend-under, the hit-group record
\* offset of the pass-through class, and forced opacity exactly for the
\* fully-opaque class (forced non-opacity for the three others).
C26_InstanceFieldsByFilter ==
    [][ \A f \in Frames :
          (TryBuildTLAS(f) /\ tlasRet'[f] = "true")
          => \A i \in DOMAIN instanceBuffers'[f] :
                LET instance == instanceBuffers'[f][i]
                    expected == ExpectedInstanceFields(InstanceFilterOf(instance))
                IN  /\ instance.instanceCustomIndex = expected.instanceCustomIndex
                    /\ instance.mask = expected.mask
                    /\ instance.instanceShaderBindingTableRecordOffset
                          = expected.instanceShaderBindingTableRecordOffset
                    /\ instance.flags = expected.flags ]_vars

\* instances of all twelve filters were set up, among them a static
\* fully-opaque one and a dynamic blend-under one
C26_Witness ==
    /\ tlasRet[0] = "true"
    /\ {InstanceFilterOf(instanceBuffers[0][i]) : i \in DOMAIN instanceBuffers[0]}
          = {StaticFilterSeq[i] : i \in DOMAIN StaticFilterSeq} \cup {DynamicFilterSeq[i] : i \in DOMAIN DynamicFilterSeq}
    /\ instanceBuffers[0][1].flags = {"FORCE_OPAQUE", "TRIANGLE_FACING_CULL_DISABLE"}
    /\ instanceBuffers[0][12].mask = "~INSTANCE_MASK_HAS_SHADOWS"
    /\ instanceBuffers[0][12].instanceCustomIndex = INSTANCE_CUSTOM_INDEX_FLAG_DYNAMIC

(* -------------------------- build preferences ------------------------- *)

\* every build of a queue asks for build speed exactly when its filter is
\* dynamic and for trace speed otherwise, on the size query and on the enqueue
PrefersByClass(queue) ==
    \A k \in DOMAIN queue :
        /\ queue[k].fastTrace = (CfOf(queue[k].filter) # CF_DYNAMIC)
        /\ queue[k].queried = queue[k].fastTrace

\* C27: the builds SubmitDynamicGeometry enqueues ask for build speed, the
\* builds SubmitStaticGeometry enqueues and the updates ResubmitStaticMovable
\* enqueues ask for trace speed, and each enqueue passes the preference its
\* sizes were queried with.
C27_BuildPreferenceByClass ==
    [][ /\ (SubmitStaticGeometry /\ ~AreGeometriesEmpty(collectorStatic, staticFlags))
           => /\ PrefersByClass(StaticQueue)
              /\ \A k \in DOMAIN StaticQueue : StaticQueue[k].fastTrace
        /\ \A f \in Frames :
              (SubmitDynamicGeometry(f) /\ ~AreGeometriesEmpty(collectorDynamic[f], CF_DYNAMIC))
              => /\ PrefersByClass(DynamicQueue(f))
                 /\ \A k \in DOMAIN DynamicQueue(f) : ~DynamicQueue(f)[k].fastTrace
        /\ (ResubmitStaticMovable /\ ~AreGeometriesEmpty(collectorStatic, CF_STATIC_MOVABLE))
           => /\ PrefersByClass(MovableQueue)
              /\ \A k \in DOMAIN MovableQueue : MovableQueue[k].fastTrace ]_vars

\* a static build, a movable update and a dynamic build have been enqueued
\* and flushed
C27_Witness ==
    /\ pc = "idle"
    /\ \E i \in DOMAIN allStaticBlas :
          /\ HasBit(allStaticBlas[i].filter, CF_STATIC_NON_MOVABLE)
          /\ allStaticBlas[i].sync = "ordered"
          /\ allStaticBlas[i].geoms > 0
    /\ \E i \in DOMAIN allStaticBlas :
          /\ HasBit(allStaticBlas[i].filter, CF_STATIC_MOVABLE)
          /\ allStaticBlas[i].updated
          /\ allStaticBlas[i].geoms > 0
    /\ \E i \in DOMAIN allDynamicBlas[0] :
          /\ allDynamicBlas[0][i].sync = "ordered"
          /\ allDynamicBlas[0][i].geoms > 0
    /\ ~collectorDynamic[0].collecting

(* ----------------------- top-level buffer reuse ------------------------ *)

\* C28: TryBuildTLAS(f) never enqueues an update of the top-level structure
\* whose buffer is smaller than the build needs; when the slot's buffer is
\* smaller than the size of the build, the structure gets a new handle and a
\* buffer of that size and a full build is enqueued, and otherwise the slot
\* keeps its handle and its buffer.
C28_TlasBufferReuse ==
    [][ \A f \in Frames :
          (TryBuildTLAS(f) /\ tlasRet'[f] = "true")
          => LET size == GetTopBuildSizes(TlasAssembly(f).instanceCount)
                 queue == TlasQueue(tlas'[f].as, TlasAssembly(f).instanceCount)
             IN  /\ \A k \in DOMAIN queue : queue[k].update => tlas[f].size >= size
                 /\ IF tlas[f].size < size
                    THEN /\ tlas'[f].as # VK_NULL_HANDLE
                         /\ tlas'[f].as # tlas[f].as
                         /\ tlas'[f].size = size
                         /\ \A k \in DOMAIN queue : ~queue[k].update
                    ELSE /\ tlas'[f].as = tlas[f].as
                         /\ tlas'[f].size = tlas[f].size ]_vars

\* slot 0 was built for two instances and then, with one instance left, was
\* built again into the buffer it had
C28_Witness ==
    /\ tlasRet[0] = "true"
    /\ tlas[0].as # VK_NULL_HANDLE
    /\ tlas[0].size = 2
    /\ tlas[0].primitiveCount = 1
    /\ tlas[0].sync = "ordered"

(* ------------------------- fixed-size buffers ------------------------- *)

\* the indices TryBuildTLAS(f) uses on its local instances array: one per
\* instance it sets up, counted from 0
InstanceWriteIndices(f) == 0 .. (TlasAssembly(f).instanceCount - 1)

\* the number of ints TryBuildTLAS(f) copies into the uniform's table
CopiedInts(f) == TlasAssembly(f).instanceCount * 4

\* C29: for every combination of live static and dynamic structures, every
\* index TryBuildTLAS writes its local instances array at is below the
\* array's 32 elements, and the ints it copies into the uniform's
\* instanceGeomInfoOffset are no more than the ints that table has; the
\* instance buffer and the table hold what was counted.
C29_WritesWithinCapacity ==
    [][ \A f \in Frames :
          TryBuildTLAS(f)
          => /\ \A i \in InstanceWriteIndices(f) : i < InstancesCapacity
             /\ CopiedInts(f) <= UniformOffsetVec4Count * 4
             /\ CopiedInts(f) <= Cardinality(DOMAIN uniform)
             /\ tlasRet'[f] = "true"
                => /\ Len(instanceBuffers'[f]) = Cardinality(InstanceWriteIndices(f))
                   /\ \A k \in 0 .. (CopiedInts(f) - 1) : k \in DOMAIN uniform' ]_vars

\* all twelve records were live: the copy filled the table to its last ivec4
C29_Witness ==
    /\ tlasRet[0] = "true"
    /\ tlas[0].primitiveCount = UniformOffsetVec4Count
    /\ Len(instanceBuffers[0]) = Len(allStaticBlas) + Len(allDynamicBlas[0])
    /\ \A i \in 0 .. (UniformOffsetVec4Count - 1) : uniform[i * 4] # Uninit

(* ---------------------------- termination ----------------------------- *)

\* every call of SubmitStaticGeometry that waits for its fence returns
SubmitStaticReturns == (pc = "waitFence") ~> (pc = "idle")

\* while SubmitStaticGeometry waits, the fence is signalled or work that
\* will signal it is with the queue
FenceWillBeSignalled ==
    pc = "waitFence" => (gpuPending # {} \/ staticCopyFence = "signaled")

\* an operation that goes on to its end has done all of its work: a submit
\* leaves a structure for every group that holds geometry, and a top-level
\* build that returns true leaves a top-level structure
NoPartialSuccess ==
    [][ /\ (SubmitStaticGeometry /\ run' = run)
           => \A i \in DOMAIN allStaticBlas :
                 collectorStatic.geoms[allStaticBlas[i].filter] > 0 => allStaticBlas'[i].as # VK_NULL_HANDLE
        /\ \A f \in Frames :
              (SubmitDynamicGeometry(f) /\ run' = run)
              => \A i \in DOMAIN allDynamicBlas[f] :
                    collectorDynamic[f].geoms[allDynamicBlas[f][i].filter] > 0
                    => allDynamicBlas'[f][i].as # VK_NULL_HANDLE
        /\ \A f \in Frames :
              (TryBuildTLAS(f) /\ tlasRet'[f] = "true" /\ run' = run)
              => tlas'[f].as # VK_NULL_HANDLE ]_vars

\* C30: on a queue that finishes what is submitted to it, every call of
\* SubmitStaticGeometry returns, it never waits for a fence that nothing
\* submitted will signal, and no operation ends with part of its work done.
C30_SubmitReturnsAndNothingPartial ==
    /\ SubmitStaticReturns
    /\ []FenceWillBeSignalled
    /\ NoPartialSuccess

(* --------------------------- previous frame --------------------------- *)

\* the triangle of the last call has previous-frame data to be used: the
\* previous base vertex index is not the sentinel, and the geometry is
\* dynamic or movable
PrevDataExists ==
    /\ shaderOut.inst.prevBaseVertexIndex # UINT32_MAX
    /\ \/ shaderOut.instanceCustomIndex = INSTANCE_CUSTOM_INDEX_FLAG_DYNAMIC
       \/ shaderOut.inst.flags >= GEOM_INST_FLAG_IS_MOVABLE

\* the previous positions of the last call come from previous-frame data: for
\* dynamic geometry the previous vertices under the previous transform, for
\* static geometry the same local positions under the previous transform
FromPrevData ==
    \A k \in 1 .. 3 :
        IF shaderOut.instanceCustomIndex = INSTANCE_CUSTOM_INDEX_FLAG_DYNAMIC
        THEN shaderOut.prevPositions[k]
               = shaderOut.inst.prevModel
                 * getPrevDynamicVerticesPositions(shaderOut.inst.prevBaseVertexIndex + shaderOut.primitiveId * 3 + (k - 1))
        ELSE shaderOut.prevPositions[k] * shaderOut.inst.model = shaderOut.positions[k] * shaderOut.inst.prevModel

\* C31: getTriangle and getOnlyPrevPositions compute the previous position
\* from previous-frame data exactly when it exists (dynamic: previous base
\* vertex index not the sentinel; static: movable and previous base vertex
\* index not the sentinel) and give the current position otherwise; and
\* getCurrentGeometryIndexByPrev returns false, nothing else, when the
\* table holds the no-match sentinel for the previous geometry.
C31_PrevPositionFallback ==
    /\ shaderOut.call \in {"getTriangle", "getOnlyPrevPositions"}
       => IF PrevDataExists THEN FromPrevData ELSE shaderOut.prevPositions = shaderOut.positions
    /\ shaderOut.call = "getCurrentGeometryIndexByPrev"
       => /\ shaderOut.return \in BOOLEAN
          /\ (shaderOut.prevFrameGeomIndex \in DOMAIN shaderIn.geomIndexPrevToCur
                /\ shaderIn.geomIndexPrevToCur[shaderOut.prevFrameGeomIndex] = UINT32_MAX)
             => ~shaderOut.return
          /\ (shaderOut.prevFrameGeomIndex \in DOMAIN shaderIn.geomIndexPrevToCur
                /\ shaderIn.geomIndexPrevToCur[shaderOut.prevFrameGeomIndex] # UINT32_MAX)
             => /\ shaderOut.return
                /\ shaderOut.curFrameGlobalGeomIndex = shaderIn.geomIndexPrevToCur[shaderOut.prevFrameGeomIndex]

\* getTriangle was called for a dynamic geometry without previous data and
\* gave the current positions as the previous ones
C31_Witness ==
    /\ shaderOut.call = "getTriangle"
    /\ shaderOut.instanceCustomIndex = INSTANCE_CUSTOM_INDEX_FLAG_DYNAMIC
    /\ shaderOut.inst.prevBaseVertexIndex = UINT32_MAX
    /\ shaderOut.prevPositions = shaderOut.positions
    /\ shaderOut.positions[1] = shaderOut.inst.model * getDynamicVerticesPositions(3)

(* ------------------------- handles handed out ------------------------- *)

\* the bottom-level records TryBuildTLAS(f) takes its instances from
RecordsOfSlot(f) ==
    {allStaticBlas[i] : i \in DOMAIN allStaticBlas} \cup {allDynamicBlas[f][i] : i \in DOMAIN allDynamicBlas[f]}

\* the structure an instance refers to is the one a record of the slot holds
ReferenceExists(f, instance) ==
    \E as \in RecordsOfSlot(f) :
        IsLive(as) /\ GetASAddress(as) = instance.accelerationStructureReference

\* C32: whenever GetTLASDescSet(f) is not null, every instance the top-level
\* structure of slot f was built from refers to a bottom-level structure
\* that a record still holds.
C32_DescriptorReachesLiveStructures ==
    \A f \in Frames :
        GetTLASDescSet(f) # VK_NULL_HANDLE
        => \A i \in DOMAIN instanceBuffers[f] : ReferenceExists(f, instanceBuffers[f][i])

\* C33: whenever ResubmitStaticMovable reaches UpdateBLAS for a movable
\* group that holds geometry, the record of the group holds a structure
\* whose buffer is initialised and at least as large as the size of the
\* build (the assert of UpdateBLAS holds), whatever was called before.
C33_UpdateFindsBuiltStructure ==
    [][ (ResubmitStaticMovable /\ ~AreGeometriesEmpty(collectorStatic, CF_STATIC_MOVABLE))
        => \A i \in DOMAIN allStaticBlas :
              (IsMovableFilter(allStaticBlas[i].filter)
               /\ GetASGeometries(collectorStatic, allStaticBlas[i].filter) > 0)
              => /\ allStaticBlas[i].as # VK_NULL_HANDLE
                 /\ IsInitted(allStaticBlas[i])
                 /\ allStaticBlas[i].size >= GetBottomBuildSizes(GetASGeometries(collectorStatic, allStaticBlas[i].filter)) ]_vars

(* --------------------------- frame effects ---------------------------- *)

\* C34: a call of TryBuildTLAS(f) that returns false leaves the uniform's
\* table, the instance buffers, the top-level records, the descriptors, the
\* builder's queue and every other object of the manager as they were;
\* nothing is recorded.
C34_FalseReturnChangesNothing ==
    [][ \A f \in Frames :
          (TryBuildTLAS(f) /\ tlasRet'[f] = "false")
          => /\ uniform' = uniform
             /\ instanceBuffers' = instanceBuffers
             /\ tlas' = tlas
             /\ asDescSets' = asDescSets
             /\ builderQueue' = builderQueue
             /\ staticLog' = staticLog
             /\ allStaticBlas' = allStaticBlas
             /\ allDynamicBlas' = allDynamicBlas ]_vars

\* slot 0 was built and then, with every structure gone, TryBuildTLAS(0)
\* returned false: the table, the instance buffer and the record are those
\* of the earlier build
C34_Witness ==
    /\ tlasRet[0] = "false"
    /\ tlas[0].as # VK_NULL_HANDLE
    /\ tlas[0].primitiveCount > 0
    /\ Len(instanceBuffers[0]) = tlas[0].primitiveCount
    /\ uniform[0] # Uninit
    /\ ~AnyLive(allStaticBlas)
    /\ ~AnyLive(allDynamicBlas[0])


(* ------------------------- handle and buffer -------------------------- *)

AllBlasRecords ==
    {allStaticBlas[i] : i \in DOMAIN allStaticBlas}
    \cup UNION {{allDynamicBlas[f][i] : i \in DOMAIN allDynamicBlas[f]} : f \in Frames}

HandleIffBuffer(rec) == (rec.as # VK_NULL_HANDLE) <=> IsInitted(rec)

FiltersOf(list) == [i \in DOMAIN list |-> list[i].filter]

FilterValues(cfs) ==
    {cf + VertexCollectorFilterGroup_PassThrough[k] :
        cf \in cfs, k \in DOMAIN VertexCollectorFilterGroup_PassThrough}

\* each value of wanted is the filter of exactly one record of list, and list
\* holds no other record
OnePerFilter(list, wanted) ==
    /\ {list[i].filter : i \in DOMAIN list} = wanted
    /\ \A i, j \in DOMAIN list : list[i].filter = list[j].filter => i = j

\* C36: the bottom-level records are those of the constructor in every
\* reachable state: the static list holds one record for each filter value
\* without the dynamic bit and no record with it, the dynamic list of each
\* frame slot holds one record for each filter value with the dynamic bit and
\* no other, and no step changes the filter of a record; so the assertions
\* on the filter class in SubmitStaticGeometry, SubmitDynamicGeometry,
\* ResubmitStaticMovable and TryBuildTLAS hold wherever they are evaluated
C36_RecordSetFixed ==
    /\ [](/\ OnePerFilter(allStaticBlas, FilterValues({CF_STATIC_NON_MOVABLE, CF_STATIC_MOVABLE}))
          /\ \A i \in DOMAIN allStaticBlas : ~HasBit(allStaticBlas[i].filter, CF_DYNAMIC)
          /\ \A f \in Frames :
                /\ OnePerFilter(allDynamicBlas[f], FilterValues({CF_DYNAMIC}))
                /\ \A i \in DOMAIN allDynamicBlas[f] : HasBit(allDynamicBlas[f][i].filter, CF_DYNAMIC))
    /\ [][ /\ FiltersOf(allStaticBlas') = FiltersOf(allStaticBlas)
           /\ \A f \in Frames : FiltersOf(allDynamicBlas'[f]) = FiltersOf(allDynamicBlas[f]) ]_vars

\* static records were destroyed and built again, a movable structure was
\* updated, and dynamic structures and a TLAS were built
C36_Witness ==
    /\ \E i \in DOMAIN allStaticBlas : allStaticBlas[i].as # VK_NULL_HANDLE /\ allStaticBlas[i].updated
    /\ \E i \in DOMAIN allStaticBlas :
          allStaticBlas[i].as # VK_NULL_HANDLE /\ HasBit(allStaticBlas[i].filter, CF_STATIC_NON_MOVABLE)
    /\ AnyLive(allDynamicBlas[0])
    /\ tlasRet[0] = "true"

(* --------------------------- the raster pass -------------------------- *)

\* C37: in every state in which DestroyImages can run, for every frame slot
\* the image, the view and the memory of the colour attachment are all null
\* or all non-null, and so are those of the depth attachment (what
\* DestroyPassImageDef asserts), also after CreateImages left with an
\* allocation error in the middle of a slot
C37_AttachmentsAllOrNone ==
    Running => \A i \in Frames : AllOrNone(colorAttchs, i) /\ AllOrNone(depthAttchs, i)

FramebuffersExist(i) ==
    /\ rasterFramebuffers[i] # VK_NULL_HANDLE
    /\ rasterSkyFramebuffers[i] # VK_NULL_HANDLE
    /\ colorAttchs.image[i] # VK_NULL_HANDLE
    /\ depthAttchs.image[i] # VK_NULL_HANDLE

\* C38: whenever rasterWidth and rasterHeight are both positive (what
\* PrepareForFinal asserts), the framebuffers and the attachment images of
\* every frame slot exist; so from a DestroyFramebuffers to the next
\* CreateFramebuffers the width or the height is not positive
C38_PositiveSizeMeansFramebuffers ==
    (Running /\ rasterWidth > 0 /\ rasterHeight > 0) => \A i \in Frames : FramebuffersExist(i)

=============================================================================
